---- MODULE Spec2Model ----
(***************************************************************************)
(* The yoink revocation engine: the plugin registry (pkg/plugins), the     *)
(* engine's three call shapes (internal/core: Revoke, RevokeBatch,         *)
(* RevokeWithCallback) and the goroutines they start.                      *)
(***************************************************************************)
EXTENDS Integers, Sequences, FiniteSets, TLC

(* ------------------------------ bounds --------------------------------- *)

\* longest credential list handed to one engine call
MaxLen == 2
\* most plugins registered during setup
MaxPlugins == 2

(* ------------------------------ plugins -------------------------------- *)

\* Plugin instances offered to Register, after the mocks of
\* TestRegistry_FindPlugin (detection by credential) and TestEngine_Revoke
\* (a detected credential that fails). Both claim "t12"; "test1" rejects it
\* in Validate (routed, then format-invalid) and "test2" accepts it.
PluginIds == {"test1", "test2"}

\* Credential strings submitted by callers; "zz" is claimed by no plugin.
Creds == {"t1", "t12", "zz"}

\* error values (nil is the string "nil")
Nil == "nil"
ErrNoPluginFound == "ErrNoPluginFound"
ErrInvalidCredential == "ErrInvalidCredential"
ErrProvider == "ErrProvider"

\* Plugin.Name
Name(p) == p

\* Plugin.Detect
Detect(p, credential) ==
    CASE p = "test1" -> credential \in {"t1", "t12"}
      [] p = "test2" -> credential = "t12"
      [] OTHER -> FALSE

\* Plugin.Validate: the error returned
Validate(p, credential) ==
    CASE p = "test1" -> IF credential = "t1" THEN Nil ELSE ErrInvalidCredential
      [] p = "test2" -> IF Detect(p, credential) THEN Nil ELSE ErrInvalidCredential
      [] OTHER -> ErrInvalidCredential

\* Plugin.Revoke: the errors the call can return. It validates first; past
\* validation the provider's answer is not under the program's control.
RevokeOutcomes(p, credential) ==
    IF Validate(p, credential) # Nil
    THEN {Validate(p, credential)}
    ELSE {Nil, ErrProvider}

(* ------------------------------ registry ------------------------------- *)

RECURSIVE FindFrom(_, _, _)
\* the loop of Registry.FindPlugin from position i on: the index of the
\* first plugin whose Detect is true, 0 when the loop runs off the end
FindFrom(plugins, credential, i) ==
    IF i > Len(plugins) THEN 0
    ELSE IF Detect(plugins[i], credential) THEN i
    ELSE FindFrom(plugins, credential, i + 1)

RECURSIVE FindLastFrom(_, _, _)
\* the scan run backwards from position i
FindLastFrom(plugins, credential, i) ==
    IF i < 1 THEN 0
    ELSE IF Detect(plugins[i], credential) THEN i
    ELSE FindLastFrom(plugins, credential, i - 1)

\* fault variant: a scan that lets a later registration override an earlier one
FindPluginLast(plugins, credential) == FindLastFrom(plugins, credential, Len(plugins))

\* Registry.FindPlugin: index into the registry, 0 for (nil, false)
FindPlugin(plugins, credential) == FindFrom(plugins, credential, 1)

(* ------------------------------ results -------------------------------- *)

\* the zero RevocationResult that make([]RevocationResult, n) leaves in a slot
ZeroResult ==
    [Credential |-> "", Plugin |-> "", Success |-> FALSE, Error |-> Nil, DryRun |-> FALSE]

\* fault variant: the !found result with DryRun fixed to false
NotFoundResultNotDry(credential, mode) ==
    [Credential |-> credential, Plugin |-> "none", Success |-> FALSE,
     Error |-> ErrNoPluginFound, DryRun |-> FALSE]

\* fault variant: the !found result without its error
NotFoundResultNoError(credential, mode) ==
    [Credential |-> credential, Plugin |-> "none", Success |-> FALSE,
     Error |-> Nil, DryRun |-> mode]

\* Engine.Revoke, the result of the !found branch
NotFoundResult(credential, mode) ==
    [Credential |-> credential, Plugin |-> "none", Success |-> FALSE,
     Error |-> ErrNoPluginFound, DryRun |-> mode]

\* fault variant: the dry-run result without the validation error
ValidateResultDropsError(credential, p, err) ==
    [Credential |-> credential, Plugin |-> Name(p), Success |-> err = Nil,
     Error |-> Nil, DryRun |-> TRUE]

\* Engine.Revoke, the result of the dry-run branch
ValidateResult(credential, p, err) ==
    [Credential |-> credential, Plugin |-> Name(p), Success |-> err = Nil,
     Error |-> err, DryRun |-> TRUE]

\* fault variant: the revocation result reporting success whatever err is
RevokeResultAlwaysSuccess(credential, p, err) ==
    [Credential |-> credential, Plugin |-> Name(p), Success |-> TRUE,
     Error |-> err, DryRun |-> FALSE]

\* Engine.Revoke, the result of the revocation branch
RevokeResult(credential, p, err) ==
    [Credential |-> credential, Plugin |-> Name(p), Success |-> err = Nil,
     Error |-> err, DryRun |-> FALSE]

\* fault variant: the dry-run test skipped
TakesDryRunBranchNever(mode) == FALSE

\* the test `if e.dryRun` that sends a resolved credential to Validate
TakesDryRunBranch(mode) == mode

(* --------------------------- fan-out helpers --------------------------- *)

\* fault variant: a goroutine that reads the loop variable after the loop has finished
TaskCredentialCaptured(credentials, i) == credentials[Len(credentials)]

\* the credential the i-th goroutine is started with (passed as argument)
TaskCredential(credentials, i) == credentials[i]

\* fault variant: collecting by append, in completion order
StoreResultAppend(slots, index, result) ==
    LET free == {k \in 1..Len(slots) : slots[k] = ZeroResult}
    IN  IF free = {} THEN slots
        ELSE [slots EXCEPT ![CHOOSE k \in free : \A m \in free : k <= m] = result]

\* results[index] = result
StoreResult(slots, index, result) == [slots EXCEPT ![index] = result]

\* fault variant: the goroutine started without wg.Add(1)
WgAddForgotten(n) == n

\* wg.Add(1)
WgAdd(n) == n + 1

\* fault variant: returning without waiting
WaitReturnsAtOnce(n) == TRUE

\* wg.Wait() unblocks when the counter is zero
WaitReturns(n) == n = 0

(* ------------------------------- state --------------------------------- *)

VARIABLES
    registry,   \* Registry.plugins
    dryRun,     \* Engine.dryRun
    kind,       \* per call: "idle" | "single" | "batch" | "callback"
    cstate,     \* per call: "idle" | "spawning" | "waiting" | "returned"
    input,      \* per call: the credentials argument
    wg,         \* per call: the WaitGroup counter
    mu,         \* per call: index of the task holding the mutex, 0 when free
    results,    \* per call: the results slice (the single result for Revoke)
    delivered,  \* per call: results handed to the callback, in call order
    task,       \* per call, per index: the goroutine running Engine.Revoke:
                \* its position, its locals (credential, plugin found, the
                \* dryRun value read, err, result) and how often it has
                \* invoked the plugin's Validate and Revoke
    caller,     \* the code around the engine: the locals of the command or
                \* handler that issues the calls, as a record whose fields
                \* depend on the specification
    gh          \* a call of the GitHub plugin's Revoke, step by step

vars == <<registry, dryRun, kind, cstate, input, wg, mu, results, delivered, task,
          caller, gh>>

\* what the engine's and the registry's own steps leave alone
outer == <<caller, gh>>

\* engine calls that exist in the specification
CallIds == DOMAIN kind

\* no surrounding command: the engine is driven directly, as the unit tests do
NoCaller == [shape |-> "none"]

\* no GitHub plugin call in progress
GhIdle == [pc |-> "idle"]

\* a goroutine that has not been started
NoTask ==
    [pc |-> "unspawned", credential |-> "", found |-> 0, mode |-> FALSE,
     err |-> Nil, result |-> ZeroResult, nValidate |-> 0, nRevoke |-> 0]

InFlight(c) == cstate[c] \in {"spawning", "waiting"}

NoneInFlight == \A c \in CallIds : ~InFlight(c)

\* process setup is over once a call has been issued
SetupPhase == \A c \in CallIds : cstate[c] = "idle"

\* no engine call issued yet, with room for the calls named by ids
InitCalls(ids) ==
    /\ kind = [c \in ids |-> "idle"]
    /\ cstate = [c \in ids |-> "idle"]
    /\ input = [c \in ids |-> <<>>]
    /\ wg = [c \in ids |-> 0]
    /\ mu = [c \in ids |-> 0]
    /\ results = [c \in ids |-> <<>>]
    /\ delivered = [c \in ids |-> <<>>]
    /\ task = [c \in ids |-> <<>>]

\* NewRegistry and NewEngine
InitEngine(ids) ==
    /\ registry = <<>>
    /\ dryRun = FALSE
    /\ InitCalls(ids)

Init ==
    /\ InitEngine({1})
    /\ caller = NoCaller
    /\ gh = GhIdle

(* ------------------------------ setup ---------------------------------- *)

\* fault variant: a plugin already registered is not added again
RegisterOnce(p) ==
    /\ SetupPhase
    /\ Len(registry) < MaxPlugins
    /\ registry' = IF \E j \in 1..Len(registry) : registry[j] = p
                   THEN registry ELSE Append(registry, p)
    /\ UNCHANGED <<dryRun, kind, cstate, input, wg, mu, results, delivered, task>>

\* Registry.Register, called while the process is being set up
Register(p) ==
    /\ SetupPhase
    /\ Len(registry) < MaxPlugins
    /\ registry' = Append(registry, p)
    /\ UNCHANGED <<dryRun, kind, cstate, input, wg, mu, results, delivered, task>>

\* Engine.SetDryRun, called while the process is being set up (runRevoke,
\* runWatch and runServe all set the mode before the first engine call)
SetDryRun(b) ==
    /\ SetupPhase
    /\ dryRun' = b
    /\ UNCHANGED <<registry, kind, cstate, input, wg, mu, results, delivered, task>>

(* --------------------------- starting a call --------------------------- *)

\* credential lists a caller can pass: every sequence of at most MaxLen
\* credentials, duplicates allowed
Inputs == UNION {[1..n -> Creds] : n \in 0..MaxLen}

\* a caller may issue a call on a slot whose previous call has returned
CanStart(c) == cstate[c] \in {"idle", "returned"} /\ NoneInFlight

\* the caller enters Engine.Revoke(ctx, credential) on its own thread
StartRevoke(c, credential) ==
    /\ CanStart(c)
    /\ kind' = [kind EXCEPT ![c] = "single"]
    /\ cstate' = [cstate EXCEPT ![c] = "waiting"]
    /\ input' = [input EXCEPT ![c] = <<credential>>]
    /\ wg' = [wg EXCEPT ![c] = 0]
    /\ mu' = [mu EXCEPT ![c] = 0]
    /\ results' = [results EXCEPT ![c] = <<>>]
    /\ delivered' = [delivered EXCEPT ![c] = <<>>]
    /\ task' = [task EXCEPT ![c] =
                  <<[NoTask EXCEPT !.pc = "find", !.credential = credential]>>]
    /\ UNCHANGED <<registry, dryRun>>

\* Engine.RevokeBatch up to its loop: results := make([]RevocationResult, n)
EnterRevokeBatch(c, credentials) ==
    /\ kind' = [kind EXCEPT ![c] = "batch"]
    /\ cstate' = [cstate EXCEPT ![c] =
                    IF Len(credentials) = 0 THEN "waiting" ELSE "spawning"]
    /\ input' = [input EXCEPT ![c] = credentials]
    /\ wg' = [wg EXCEPT ![c] = 0]
    /\ mu' = [mu EXCEPT ![c] = 0]
    /\ results' = [results EXCEPT ![c] = [i \in 1..Len(credentials) |-> ZeroResult]]
    /\ delivered' = [delivered EXCEPT ![c] = <<>>]
    /\ task' = [task EXCEPT ![c] = [i \in 1..Len(credentials) |-> NoTask]]
    /\ UNCHANGED <<registry, dryRun>>

\* Engine.RevokeWithCallback up to its loop
EnterRevokeWithCallback(c, credentials) ==
    /\ kind' = [kind EXCEPT ![c] = "callback"]
    /\ cstate' = [cstate EXCEPT ![c] =
                    IF Len(credentials) = 0 THEN "waiting" ELSE "spawning"]
    /\ input' = [input EXCEPT ![c] = credentials]
    /\ wg' = [wg EXCEPT ![c] = 0]
    /\ mu' = [mu EXCEPT ![c] = 0]
    /\ results' = [results EXCEPT ![c] = <<>>]
    /\ delivered' = [delivered EXCEPT ![c] = <<>>]
    /\ task' = [task EXCEPT ![c] = [i \in 1..Len(credentials) |-> NoTask]]
    /\ UNCHANGED <<registry, dryRun>>

\* a caller that issues one engine call at a time calls RevokeBatch
StartRevokeBatch(c, credentials) ==
    /\ CanStart(c)
    /\ EnterRevokeBatch(c, credentials)

\* a caller that issues one engine call at a time calls RevokeWithCallback
StartRevokeWithCallback(c, credentials) ==
    /\ CanStart(c)
    /\ EnterRevokeWithCallback(c, credentials)

\* indices of the goroutines the loop has not started yet
Unspawned(c) == {i \in 1..Len(task[c]) : task[c][i].pc = "unspawned"}

\* one iteration of `for i, cred := range credentials`: wg.Add(1); go func(...)
Spawn(c) ==
    /\ cstate[c] = "spawning"
    /\ Unspawned(c) # {}
    /\ LET i == CHOOSE k \in Unspawned(c) : \A m \in Unspawned(c) : k <= m
       IN  /\ wg' = [wg EXCEPT ![c] = WgAdd(wg[c])]
           /\ task' = [task EXCEPT ![c][i] =
                         [@ EXCEPT !.pc = "find",
                                   !.credential = TaskCredential(input[c], i)]]
           /\ cstate' = [cstate EXCEPT ![c] =
                           IF Unspawned(c) = {i} THEN "waiting" ELSE "spawning"]
    /\ UNCHANGED <<registry, dryRun, kind, input, mu, results, delivered>>

(* ----------------------- Engine.Revoke, step by step ------------------- *)

\* plugin, found := e.registry.FindPlugin(credential)
TaskFind(c, i) ==
    /\ task[c][i].pc = "find"
    /\ LET t == task[c][i]
       IN  task' = [task EXCEPT ![c][i] =
              [t EXCEPT !.pc = "mode",
                        !.found = FindPlugin(registry, t.credential)]]
    /\ UNCHANGED <<registry, dryRun, kind, cstate, input, wg, mu, results, delivered>>

\* the one read of e.dryRun: in the !found result, or in `if e.dryRun`
TaskReadMode(c, i) ==
    /\ task[c][i].pc = "mode"
    /\ LET t == task[c][i]
       IN  task' = [task EXCEPT ![c][i] =
              IF t.found = 0
              THEN [t EXCEPT !.pc = "ready", !.mode = dryRun,
                             !.result = NotFoundResult(t.credential, dryRun)]
              ELSE [t EXCEPT !.mode = dryRun,
                             !.pc = IF TakesDryRunBranch(dryRun)
                                    THEN "validate" ELSE "revoke"]]
    /\ UNCHANGED <<registry, dryRun, kind, cstate, input, wg, mu, results, delivered>>

\* fault variant: the dry-run result takes its DryRun field from a second
\* read of the engine's flag
TaskValidateRereadsFlag(c, i) ==
    /\ task[c][i].pc = "validate"
    /\ LET t == task[c][i]
           p == registry[t.found]
       IN  task' = [task EXCEPT ![c][i] =
              [t EXCEPT !.pc = "ready",
                        !.nValidate = @ + 1,
                        !.err = Validate(p, t.credential),
                        !.result = [ValidateResult(t.credential, p, Validate(p, t.credential))
                                        EXCEPT !.DryRun = dryRun]]]
    /\ UNCHANGED <<registry, dryRun, kind, cstate, input, wg, mu, results, delivered>>

\* err := plugin.Validate(credential) and the dry-run result
TaskValidate(c, i) ==
    /\ task[c][i].pc = "validate"
    /\ LET t == task[c][i]
           p == registry[t.found]
       IN  task' = [task EXCEPT ![c][i] =
              [t EXCEPT !.pc = "ready",
                        !.nValidate = @ + 1,
                        !.err = Validate(p, t.credential),
                        !.result = ValidateResult(t.credential, p,
                                                  Validate(p, t.credential))]]
    /\ UNCHANGED <<registry, dryRun, kind, cstate, input, wg, mu, results, delivered>>

\* err := plugin.Revoke(ctx, credential) and the revocation result
TaskRevoke(c, i) ==
    /\ task[c][i].pc = "revoke"
    /\ LET t == task[c][i]
           p == registry[t.found]
       IN  \E err \in RevokeOutcomes(p, t.credential) :
             task' = [task EXCEPT ![c][i] =
                [t EXCEPT !.pc = "ready",
                          !.nRevoke = @ + 1,
                          !.err = err,
                          !.result = RevokeResult(t.credential, p, err)]]
    /\ UNCHANGED <<registry, dryRun, kind, cstate, input, wg, mu, results, delivered>>

(* ------------------------ after Engine.Revoke -------------------------- *)

\* Engine.Revoke returns its result to the caller
ReturnRevoke(c) ==
    /\ kind[c] = "single"
    /\ cstate[c] = "waiting"
    /\ task[c][1].pc = "ready"
    /\ results' = [results EXCEPT ![c] = <<task[c][1].result>>]
    /\ task' = [task EXCEPT ![c][1].pc = "done"]
    /\ cstate' = [cstate EXCEPT ![c] = "returned"]
    /\ UNCHANGED <<registry, dryRun, kind, input, wg, mu, delivered>>

\* RevokeBatch goroutine: mu.Lock()
TaskLock(c, i) ==
    /\ kind[c] = "batch"
    /\ task[c][i].pc = "ready"
    /\ mu[c] = 0
    /\ mu' = [mu EXCEPT ![c] = i]
    /\ task' = [task EXCEPT ![c][i].pc = "locked"]
    /\ UNCHANGED <<registry, dryRun, kind, cstate, input, wg, results, delivered>>

\* fault variant: every call collecting into one shared slice
TaskStoreShared(c, i) ==
    /\ task[c][i].pc = "locked"
    /\ LET shared == CHOOSE d \in CallIds : \A e \in CallIds : d <= e
       IN  results' = [results EXCEPT
                         ![shared] = IF i <= Len(@) THEN StoreResult(@, i, task[c][i].result)
                                     ELSE @]
    /\ mu' = [mu EXCEPT ![c] = 0]
    /\ task' = [task EXCEPT ![c][i].pc = "exit"]
    /\ UNCHANGED <<registry, dryRun, kind, cstate, input, wg, delivered>>

\* RevokeBatch goroutine: results[index] = result; mu.Unlock()
TaskStore(c, i) ==
    /\ task[c][i].pc = "locked"
    /\ results' = [results EXCEPT ![c] = StoreResult(@, i, task[c][i].result)]
    /\ mu' = [mu EXCEPT ![c] = 0]
    /\ task' = [task EXCEPT ![c][i].pc = "exit"]
    /\ UNCHANGED <<registry, dryRun, kind, cstate, input, wg, delivered>>

\* fault variant: the engine lets one callback invocation run at a time
CallbackBeginSerialized(c, i) ==
    /\ kind[c] = "callback"
    /\ task[c][i].pc = "ready"
    /\ \A j \in 1..Len(task[c]) : task[c][j].pc # "incallback"
    /\ delivered' = [delivered EXCEPT ![c] = Append(@, task[c][i].result)]
    /\ task' = [task EXCEPT ![c][i].pc = "incallback"]
    /\ UNCHANGED <<registry, dryRun, kind, cstate, input, wg, mu, results>>

\* RevokeWithCallback goroutine: callback(result) is entered
CallbackBegin(c, i) ==
    /\ kind[c] = "callback"
    /\ task[c][i].pc = "ready"
    /\ delivered' = [delivered EXCEPT ![c] = Append(@, task[c][i].result)]
    /\ task' = [task EXCEPT ![c][i].pc = "incallback"]
    /\ UNCHANGED <<registry, dryRun, kind, cstate, input, wg, mu, results>>

\* RevokeWithCallback goroutine: callback(result) returns
CallbackEnd(c, i) ==
    /\ task[c][i].pc = "incallback"
    /\ task' = [task EXCEPT ![c][i].pc = "exit"]
    /\ UNCHANGED <<registry, dryRun, kind, cstate, input, wg, mu, results, delivered>>

\* fault variant: the goroutine ends without wg.Done()
TaskDoneWithoutSignal(c, i) ==
    /\ task[c][i].pc = "exit"
    /\ task' = [task EXCEPT ![c][i].pc = "done"]
    /\ UNCHANGED <<registry, dryRun, kind, cstate, input, wg, mu, results, delivered>>

\* the deferred wg.Done() as the goroutine ends
TaskDone(c, i) ==
    /\ task[c][i].pc = "exit"
    /\ wg' = [wg EXCEPT ![c] = @ - 1]
    /\ task' = [task EXCEPT ![c][i].pc = "done"]
    /\ UNCHANGED <<registry, dryRun, kind, cstate, input, mu, results, delivered>>

\* wg.Wait() unblocks and RevokeBatch / RevokeWithCallback returns
Wait(c) ==
    /\ kind[c] \in {"batch", "callback"}
    /\ cstate[c] = "waiting"
    /\ WaitReturns(wg[c])
    /\ cstate' = [cstate EXCEPT ![c] = "returned"]
    /\ UNCHANGED <<registry, dryRun, kind, input, wg, mu, results, delivered, task>>

(* --------------------------- specification ----------------------------- *)

Next ==
    \/ (\E p \in PluginIds : Register(p)) /\ UNCHANGED outer
    \/ (\E b \in BOOLEAN : SetDryRun(b)) /\ UNCHANGED outer
    \/ (\E c \in CallIds, credential \in Creds : StartRevoke(c, credential)) /\ UNCHANGED outer
    \/ (\E c \in CallIds, credentials \in Inputs : StartRevokeBatch(c, credentials)) /\ UNCHANGED outer
    \/ (\E c \in CallIds, credentials \in Inputs : StartRevokeWithCallback(c, credentials)) /\ UNCHANGED outer
    \/ (\E c \in CallIds : Spawn(c)) /\ UNCHANGED outer
    \/ (\E c \in CallIds : \E i \in 1..Len(task[c]) : TaskFind(c, i)) /\ UNCHANGED outer
    \/ (\E c \in CallIds : \E i \in 1..Len(task[c]) : TaskReadMode(c, i)) /\ UNCHANGED outer
    \/ (\E c \in CallIds : \E i \in 1..Len(task[c]) : TaskValidate(c, i)) /\ UNCHANGED outer
    \/ (\E c \in CallIds : \E i \in 1..Len(task[c]) : TaskRevoke(c, i)) /\ UNCHANGED outer
    \/ (\E c \in CallIds : ReturnRevoke(c)) /\ UNCHANGED outer
    \/ (\E c \in CallIds : \E i \in 1..Len(task[c]) : TaskLock(c, i)) /\ UNCHANGED outer
    \/ (\E c \in CallIds : \E i \in 1..Len(task[c]) : TaskStore(c, i)) /\ UNCHANGED outer
    \/ (\E c \in CallIds : \E i \in 1..Len(task[c]) : CallbackBegin(c, i)) /\ UNCHANGED outer
    \/ (\E c \in CallIds : \E i \in 1..Len(task[c]) : CallbackEnd(c, i)) /\ UNCHANGED outer
    \/ (\E c \in CallIds : \E i \in 1..Len(task[c]) : TaskDone(c, i)) /\ UNCHANGED outer
    \/ (\E c \in CallIds : Wait(c)) /\ UNCHANGED outer

Spec == Init /\ [][Next]_vars

(* ---------------------- concurrent engine calls ------------------------ *)

\* longest credential list of a request served concurrently with another
ConcLen == 2

\* credentials of concurrent requests
ConcCreds == {"t1", "zz"}

\* the credential lists of concurrent requests (makeRevokeHandler turns an
\* empty list away before it reaches the engine)
ConcInputs == UNION {[1..n -> ConcCreds] : n \in 1..ConcLen}

\* one engine shared by two request handlers, as runServe has set it up
\* when the server starts listening: one plugin registered, the mode taken
\* from the --dry-run flag
InitConc ==
    /\ registry = <<"test1">>
    /\ dryRun \in BOOLEAN
    /\ InitCalls({1, 2})
    /\ caller = NoCaller
    /\ gh = GhIdle

\* a handler may enter the engine while another handler's call is running
CanServe(c) == cstate[c] \in {"idle", "returned"}

\* makeRevokeHandler: results := engine.RevokeBatch(ctx, req.Credentials)
ServeRevokeBatch(c, credentials) ==
    /\ CanServe(c)
    /\ EnterRevokeBatch(c, credentials)

\* a RevokeWithCallback call issued while another call may be running
ServeRevokeWithCallback(c, credentials) ==
    /\ CanServe(c)
    /\ EnterRevokeWithCallback(c, credentials)

NextConc ==
    \/ (\E c \in CallIds, credentials \in ConcInputs : ServeRevokeBatch(c, credentials)) /\ UNCHANGED outer
    \/ (\E c \in CallIds, credentials \in ConcInputs : ServeRevokeWithCallback(c, credentials)) /\ UNCHANGED outer
    \/ (\E c \in CallIds : Spawn(c)) /\ UNCHANGED outer
    \/ (\E c \in CallIds : \E i \in 1..Len(task[c]) : TaskFind(c, i)) /\ UNCHANGED outer
    \/ (\E c \in CallIds : \E i \in 1..Len(task[c]) : TaskReadMode(c, i)) /\ UNCHANGED outer
    \/ (\E c \in CallIds : \E i \in 1..Len(task[c]) : TaskValidate(c, i)) /\ UNCHANGED outer
    \/ (\E c \in CallIds : \E i \in 1..Len(task[c]) : TaskRevoke(c, i)) /\ UNCHANGED outer
    \/ (\E c \in CallIds : \E i \in 1..Len(task[c]) : TaskLock(c, i)) /\ UNCHANGED outer
    \/ (\E c \in CallIds : \E i \in 1..Len(task[c]) : TaskStore(c, i)) /\ UNCHANGED outer
    \/ (\E c \in CallIds : \E i \in 1..Len(task[c]) : CallbackBegin(c, i)) /\ UNCHANGED outer
    \/ (\E c \in CallIds : \E i \in 1..Len(task[c]) : CallbackEnd(c, i)) /\ UNCHANGED outer
    \/ (\E c \in CallIds : \E i \in 1..Len(task[c]) : TaskDone(c, i)) /\ UNCHANGED outer
    \/ (\E c \in CallIds : Wait(c)) /\ UNCHANGED outer

SpecConc == InitConc /\ [][NextConc]_vars

(* ------------------------------ GetStats ------------------------------- *)

RECURSIVE StatsLoop(_, _, _)
\* the loop of GetStats from position k on, acc holding the counters so far
StatsLoop(rs, k, acc) ==
    IF k > Len(rs) THEN acc
    ELSE LET r == rs[k]
             next == [successful |-> IF r.Success THEN acc.successful + 1
                                                  ELSE acc.successful,
                      failed |-> IF r.Success THEN acc.failed ELSE acc.failed + 1,
                      by_plugin |-> IF r.Plugin \in DOMAIN acc.by_plugin
                                    THEN [acc.by_plugin EXCEPT ![r.Plugin] = @ + 1]
                                    ELSE acc.by_plugin @@ (r.Plugin :> 1)]
         IN  StatsLoop(rs, k + 1, next)

\* fault variant: by_plugin counting only the successful results
GetStatsSuccessfulOnly(rs) ==
    LET ok == SelectSeq(rs, LAMBDA r : r.Success)
        acc == StatsLoop(rs, 1, [successful |-> 0, failed |-> 0,
                                 by_plugin |-> [x \in {} |-> 0]])
        accOk == StatsLoop(ok, 1, [successful |-> 0, failed |-> 0,
                                   by_plugin |-> [x \in {} |-> 0]])
    IN  [total |-> Len(rs), successful |-> acc.successful, failed |-> acc.failed,
         by_plugin |-> accOk.by_plugin]

\* GetStats: the map it returns, as a record
GetStats(rs) ==
    LET acc == StatsLoop(rs, 1, [successful |-> 0, failed |-> 0,
                                 by_plugin |-> [x \in {} |-> 0]])
    IN  [total |-> Len(rs), successful |-> acc.successful, failed |-> acc.failed,
         by_plugin |-> acc.by_plugin]

(* --------------------------- the revoke command ------------------------ *)

\* the credential lists collectCredentials hands to runRevoke's engine call
\* (runRevoke returns early on an empty list)
CmdInputs == UNION {[1..n -> Creds] : n \in 1..MaxLen}

\* runRevoke before its setup: var results []core.RevocationResult is nil;
\* verbose is the --verbose flag
InitRevokeCmd ==
    /\ InitEngine({1})
    /\ \E v \in BOOLEAN :
          caller = [shape |-> "revoke", pc |-> "setup", verbose |-> v,
                    results |-> <<>>, cb |-> <<>>, summary |-> "none", ret |-> "running"]
    /\ gh = GhIdle

\* runRevoke: engine.RevokeWithCallback(ctx, credentials, func(result) {...})
CmdRevoke(credentials) ==
    /\ caller.shape = "revoke"
    /\ caller.pc = "setup"
    /\ EnterRevokeWithCallback(1, credentials)
    /\ caller' = [caller EXCEPT !.pc = "calling",
                                !.cb = [i \in 1..Len(credentials) |->
                                          [pc |-> "start", seen |-> <<>>]]]
    /\ UNCHANGED gh

\* the callback's results = append(results, result), first half: the
\* goroutine reads the slice it is going to extend
CmdAppendRead(i) ==
    /\ caller.shape = "revoke"
    /\ task[1][i].pc = "incallback"
    /\ caller.cb[i].pc = "start"
    /\ caller' = [caller EXCEPT !.cb[i] = [pc |-> "read", seen |-> caller.results]]
    /\ UNCHANGED <<registry, dryRun, kind, cstate, input, wg, mu, results, delivered,
                   task, gh>>

\* the callback's results = append(results, result), second half: the
\* goroutine stores the slice it read, extended by its result (no lock
\* orders this against the other goroutines' appends)
CmdAppendWrite(i) ==
    /\ caller.shape = "revoke"
    /\ caller.cb[i].pc = "read"
    /\ caller' = [caller EXCEPT !.cb[i].pc = "written",
                                !.results = Append(caller.cb[i].seen, task[1][i].result)]
    /\ UNCHANGED <<registry, dryRun, kind, cstate, input, wg, mu, results, delivered,
                   task, gh>>

\* the callback's formatter.WriteResult(result), and the callback returns
CmdCallbackReturn(i) ==
    /\ caller.shape = "revoke"
    /\ caller.cb[i].pc = "written"
    /\ CallbackEnd(1, i)
    /\ UNCHANGED outer

\* runRevoke after RevokeWithCallback has returned: the summary (printed
\* when len(results) > 1 || verbose), GetStats and the error returned
CmdFinish ==
    /\ caller.shape = "revoke"
    /\ caller.pc = "calling"
    /\ cstate[1] = "returned"
    /\ LET stats == GetStats(caller.results)
       IN  caller' = [caller EXCEPT
                        !.pc = "finished",
                        !.summary = IF Len(caller.results) > 1 \/ caller.verbose
                                    THEN stats.total ELSE "none",
                        !.ret = IF stats.failed > 0
                                THEN "some credentials failed to revoke" ELSE Nil]
    /\ UNCHANGED <<registry, dryRun, kind, cstate, input, wg, mu, results, delivered,
                   task, gh>>

NextRevokeCmd ==
    \/ (\E p \in PluginIds : Register(p)) /\ UNCHANGED outer
    \/ (\E b \in BOOLEAN : SetDryRun(b)) /\ UNCHANGED outer
    \/ \E credentials \in CmdInputs : CmdRevoke(credentials)
    \/ Spawn(1) /\ UNCHANGED outer
    \/ (\E i \in 1..Len(task[1]) : TaskFind(1, i)) /\ UNCHANGED outer
    \/ (\E i \in 1..Len(task[1]) : TaskReadMode(1, i)) /\ UNCHANGED outer
    \/ (\E i \in 1..Len(task[1]) : TaskValidate(1, i)) /\ UNCHANGED outer
    \/ (\E i \in 1..Len(task[1]) : TaskRevoke(1, i)) /\ UNCHANGED outer
    \/ (\E i \in 1..Len(task[1]) : CallbackBegin(1, i)) /\ UNCHANGED outer
    \/ \E i \in 1..Len(task[1]) : CmdAppendRead(i)
    \/ \E i \in 1..Len(task[1]) : CmdAppendWrite(i)
    \/ \E i \in 1..Len(task[1]) : CmdCallbackReturn(i)
    \/ (\E i \in 1..Len(task[1]) : TaskDone(1, i)) /\ UNCHANGED outer
    \/ Wait(1) /\ UNCHANGED outer
    \/ CmdFinish

SpecRevokeCmd == InitRevokeCmd /\ [][NextRevokeCmd]_vars

(* ---------------- the registry and ValidateCredential ------------------ *)

\* the engine's variables
engine == <<registry, dryRun, kind, cstate, input, wg, mu, results, delivered, task>>

\* Registry.ListPlugins: return r.plugins
ListPlugins(plugins) == plugins

\* fault variant: the plugin's name is returned although its Validate failed
ValidateCredentialKeepsName(plugins, credential) ==
    LET j == FindPlugin(plugins, credential)
    IN  IF j = 0
        THEN [name |-> "", err |-> ErrNoPluginFound, calls |-> <<>>]
        ELSE [name |-> Name(plugins[j]), err |-> Validate(plugins[j], credential),
              calls |-> <<[method |-> "Validate", plugin |-> plugins[j]]>>]

\* Engine.ValidateCredential: the pair it returns, and the plugin methods
\* (other than Detect) it has called
ValidateCredential(plugins, credential) ==
    LET j == FindPlugin(plugins, credential)
    IN  IF j = 0
        THEN [name |-> "", err |-> ErrNoPluginFound, calls |-> <<>>]
        ELSE LET err == Validate(plugins[j], credential)
                 calls == <<[method |-> "Validate", plugin |-> plugins[j]]>>
             IN  IF err # Nil
                 THEN [name |-> "", err |-> err, calls |-> calls]
                 ELSE [name |-> Name(plugins[j]), err |-> Nil, calls |-> calls]

\* a registry and an engine just constructed; the caller keeps the plugins it
\* has registered so far (log), the last ListPlugins answer (listed) and the
\* last ValidateCredential call (vc)
InitRegistry ==
    /\ InitEngine({1})
    /\ caller = [shape |-> "registry", log |-> <<>>, listed |-> <<>>,
                 vc |-> [pc |-> "none"]]
    /\ gh = GhIdle

\* registry.Register(p) by a caller that notes what it registered
CallRegister(p) ==
    /\ caller.shape = "registry"
    /\ Register(p)
    /\ caller' = [caller EXCEPT !.log = Append(@, p)]
    /\ UNCHANGED gh

\* registry.ListPlugins()
CallListPlugins ==
    /\ caller.shape = "registry"
    /\ caller' = [caller EXCEPT !.listed = ListPlugins(registry)]
    /\ UNCHANGED <<engine, gh>>

\* engine.ValidateCredential(credential)
CallValidateCredential(credential) ==
    /\ caller.shape = "registry"
    /\ caller' = [caller EXCEPT !.vc = [pc |-> "returned", credential |-> credential,
                                       plugins |-> registry, dry |-> dryRun,
                                       out |-> ValidateCredential(registry, credential)]]
    /\ UNCHANGED <<engine, gh>>

NextRegistry ==
    \/ \E p \in PluginIds : CallRegister(p)
    \/ (\E b \in BOOLEAN : SetDryRun(b)) /\ UNCHANGED outer
    \/ CallListPlugins
    \/ \E credential \in Creds : CallValidateCredential(credential)

SpecRegistry == InitRegistry /\ [][NextRegistry]_vars

(* ------------------------ the caller's context ------------------------- *)

\* the error a plugin's network call returns once its context is cancelled
ErrCancelled == "context canceled"

\* fault variant: the engine hands the plugin a context of its own
PassCtxBackground(ctx) == "live"

\* the context Engine.Revoke hands to plugin.Revoke: the caller's, unchanged
PassCtx(ctx) == ctx

\* Plugin.Revoke under a context: validation comes first and needs no
\* context; the network call fails once the context is cancelled
RevokeOutcomesCtx(p, credential, ctx) ==
    IF Validate(p, credential) # Nil THEN {Validate(p, credential)}
    ELSE IF ctx = "cancelled" THEN {ErrCancelled}
    ELSE {Nil, ErrProvider}

\* an engine set up with one plugin; the caller owns a context, which it may
\* have cancelled before the call already
InitCtx ==
    /\ registry = <<"test1">>
    /\ dryRun \in BOOLEAN
    /\ InitCalls({1})
    /\ \E s \in {"live", "cancelled"} :
          caller = [shape |-> "ctx", ctx |-> s, seen |-> <<>>]
    /\ gh = GhIdle

\* engine.RevokeBatch(ctx, credentials) with the caller's context, whatever
\* its state
CtxRevokeBatch(credentials, s) ==
    /\ caller.shape = "ctx"
    /\ CanServe(1)
    /\ EnterRevokeBatch(1, credentials)
    /\ caller' = [caller EXCEPT !.ctx = s,
                                !.seen = [i \in 1..Len(credentials) |-> [pc |-> "none"]]]
    /\ UNCHANGED gh

\* the caller cancels its context; the engine has no code that observes it
Cancel ==
    /\ caller.shape = "ctx"
    /\ caller.ctx = "live"
    /\ caller' = [caller EXCEPT !.ctx = "cancelled"]
    /\ UNCHANGED <<engine, gh>>

\* err := plugin.Revoke(ctx, credential) and the revocation result; seen
\* notes the state of the caller's context during the plugin call and the
\* state of the context the plugin was given
TaskRevokeCtx(c, i) ==
    /\ caller.shape = "ctx"
    /\ task[c][i].pc = "revoke"
    /\ LET t == task[c][i]
           p == registry[t.found]
           given == PassCtx(caller.ctx)
       IN  /\ \E err \in RevokeOutcomesCtx(p, t.credential, given) :
                task' = [task EXCEPT ![c][i] =
                   [t EXCEPT !.pc = "ready",
                             !.nRevoke = @ + 1,
                             !.err = err,
                             !.result = RevokeResult(t.credential, p, err)]]
           /\ caller' = [caller EXCEPT !.seen[i] =
                           [pc |-> "called", actual |-> caller.ctx, given |-> given]]
    /\ UNCHANGED <<registry, dryRun, kind, cstate, input, wg, mu, results, delivered, gh>>

NextCtx ==
    \/ \E credentials \in Inputs : \E s \in {"live", "cancelled"} :
          CtxRevokeBatch(credentials, s)
    \/ Cancel
    \/ Spawn(1) /\ UNCHANGED outer
    \/ (\E i \in 1..Len(task[1]) : TaskFind(1, i)) /\ UNCHANGED outer
    \/ (\E i \in 1..Len(task[1]) : TaskReadMode(1, i)) /\ UNCHANGED outer
    \/ (\E i \in 1..Len(task[1]) : TaskValidate(1, i)) /\ UNCHANGED outer
    \/ \E i \in 1..Len(task[1]) : TaskRevokeCtx(1, i)
    \/ (\E i \in 1..Len(task[1]) : TaskLock(1, i)) /\ UNCHANGED outer
    \/ (\E i \in 1..Len(task[1]) : TaskStore(1, i)) /\ UNCHANGED outer
    \/ (\E i \in 1..Len(task[1]) : TaskDone(1, i)) /\ UNCHANGED outer
    \/ Wait(1) /\ UNCHANGED outer

SpecCtx == InitCtx /\ [][NextCtx]_vars

(* ----------------------- aggregating a collection ---------------------- *)

StatsLen == 4

\* results as the engine produces them: of a plugin, successful or failed,
\* or of no plugin and failed
StatResults ==
    {[Credential |-> "c", Plugin |-> Name(p), Success |-> ok,
      Error |-> IF ok THEN Nil ELSE ErrProvider, DryRun |-> FALSE] :
        p \in PluginIds, ok \in BOOLEAN}
    \cup {[Credential |-> "c", Plugin |-> "none", Success |-> FALSE,
           Error |-> ErrNoPluginFound, DryRun |-> FALSE]}

\* a caller holding a collection of at most StatsLen results
InitStats ==
    /\ InitEngine({1})
    /\ \E rs \in UNION {[1..n -> StatResults] : n \in 0..StatsLen} :
          caller = [shape |-> "stats", rs |-> rs, pc |-> "start", out |-> Nil]
    /\ gh = GhIdle

\* stats := GetStats(results)
CallGetStats ==
    /\ caller.shape = "stats"
    /\ caller.pc = "start"
    /\ caller' = [caller EXCEPT !.pc = "returned", !.out = GetStats(caller.rs)]
    /\ UNCHANGED <<engine, gh>>

NextStats == CallGetStats

SpecStats == InitStats /\ [][NextStats]_vars

(* --------------------------- the GitHub plugin ------------------------- *)

\* tokenPattern: at least this many alphanumeric characters after the prefix
MinBodyLen == 36

\* Validate: the least length of a token
MinTokenLen == 40

\* Revoke: statuses from StatusOkFrom up to, not including, StatusOkBelow
\* are successes
StatusOkFrom == 200
StatusOkBelow == 300

\* A credential string is described by what the plugin's code looks at:
\* whether white space surrounds it, its first four characters, the number of
\* characters after them and whether those are all letters and digits.
GhHeads == {"ghp_", "ghr_", "ghs_", "gho_", "ghu_", "ghh_", "ghx_", "AKIA"}
GhBodyLens == {0, MinBodyLen - 1, MinBodyLen, MinBodyLen + 1}
GhCreds ==
    {cr \in [pad : BOOLEAN, head : GhHeads, bodyLen : GhBodyLens, alnum : BOOLEAN] :
        cr.bodyLen = 0 => cr.alnum}

\* the HTTP statuses the provider may answer with
GhStatuses == {StatusOkFrom - 1, StatusOkFrom, 204, StatusOkBelow - 1, StatusOkBelow, 404}

\* strings.TrimSpace
TrimSpace(cr) == [cr EXCEPT !.pad = FALSE]

\* len(credential): one white-space character on either side when padded
StrLen(cr) == 4 + cr.bodyLen + (IF cr.pad THEN 2 ELSE 0)

\* fault variant: the pattern without its length requirement
MatchStringAnyLength(cr) ==
    /\ ~cr.pad
    /\ cr.head \in {"ghp_", "ghr_", "ghs_", "gho_", "ghu_", "ghh_"}
    /\ cr.alnum

\* tokenPattern.MatchString: ^gh[prsouh]_[a-zA-Z0-9]{36,}$
MatchString(cr) ==
    /\ ~cr.pad
    /\ cr.head \in {"ghp_", "ghr_", "ghs_", "gho_", "ghu_", "ghh_"}
    /\ cr.alnum
    /\ cr.bodyLen >= MinBodyLen

\* github Plugin.Detect
GhDetect(cr) == MatchString(TrimSpace(cr))

\* an error value of the plugin: fmt.Errorf("%w: msg", wraps), or msg alone
GhError(wraps, msg) == [wraps |-> wraps, msg |-> msg]

\* the nil error
GhNil == GhError(Nil, "")

\* github Plugin.Validate: nil, or an error wrapping ErrInvalidCredential
GhValidate(cr) ==
    LET credential == TrimSpace(cr)
    IN  IF ~GhDetect(credential)
        THEN GhError(ErrInvalidCredential, "not a valid GitHub token format")
        ELSE IF StrLen(credential) < MinTokenLen
        THEN GhError(ErrInvalidCredential, "GitHub token too short")
        ELSE GhNil

\* a plugin made by New(), no call made yet
InitGitHub ==
    /\ InitEngine({1})
    /\ caller = NoCaller
    /\ gh = GhIdle

\* Plugin.Revoke is called: credential = strings.TrimSpace(credential)
GhRevokeCall(cr) ==
    /\ gh.pc \in {"idle", "returned"}
    /\ gh' = [pc |-> "validate", input |-> cr, credential |-> TrimSpace(cr), sent |-> 0,
              resp |-> [kind |-> "none", status |-> 0], ret |-> GhNil]
    /\ UNCHANGED <<engine, caller>>

\* fault variant: Revoke goes on to the request without validating
GhRevokeUnvalidated ==
    /\ gh.pc = "validate"
    /\ gh' = [gh EXCEPT !.pc = "send"]
    /\ UNCHANGED <<engine, caller>>

\* if err := p.Validate(credential); err != nil { return err }
GhRevokeValidate ==
    /\ gh.pc = "validate"
    /\ LET err == GhValidate(gh.credential)
       IN  gh' = IF err # GhNil THEN [gh EXCEPT !.pc = "returned", !.ret = err]
                              ELSE [gh EXCEPT !.pc = "send"]
    /\ UNCHANGED <<engine, caller>>

\* the request is built (marshalling a map of strings and building a request
\* for the constant endpoint do not fail) and sent: p.httpClient.Do(req)
\* returns a transport error or a response
GhRevokeSend ==
    /\ gh.pc = "send"
    /\ \/ gh' = [gh EXCEPT !.pc = "returned", !.sent = @ + 1,
                           !.resp = [kind |-> "error", status |-> 0],
                           !.ret = GhError("transport", "failed to send request")]
       \/ \E s \in GhStatuses :
             gh' = [gh EXCEPT !.pc = "status", !.sent = @ + 1,
                              !.resp = [kind |-> "response", status |-> s]]
    /\ UNCHANGED <<engine, caller>>

\* the status check and the return
GhRevokeStatus ==
    /\ gh.pc = "status"
    /\ gh' = [gh EXCEPT !.pc = "returned",
                        !.ret = IF gh.resp.status < StatusOkFrom \/ gh.resp.status >= StatusOkBelow
                                THEN GhError(Nil, "GitHub API returned status")
                                ELSE GhNil]
    /\ UNCHANGED <<engine, caller>>

NextGitHub ==
    \/ \E cr \in GhCreds : GhRevokeCall(cr)
    \/ GhRevokeValidate
    \/ GhRevokeSend
    \/ GhRevokeStatus

SpecGitHub == InitGitHub /\ [][NextGitHub]_vars

(* ----------------- the GitHub plugin's Detect and Validate ------------- *)

\* github Plugin.Name
GhName == "GitHub"

\* Engine.Revoke in dry-run mode on a registry holding the GitHub plugin
\* alone: FindPlugin finds it exactly when it detects the credential; the
\* sentinel ErrNoPluginFound is written as an error value that is that sentinel
DryRunRevokeGitHub(cr) ==
    IF ~GhDetect(cr)
    THEN [Credential |-> cr, Plugin |-> "none", Success |-> FALSE,
          Error |-> GhError(ErrNoPluginFound, ""), DryRun |-> TRUE]
    ELSE LET err == GhValidate(cr)
         IN  [Credential |-> cr, Plugin |-> GhName, Success |-> err = GhNil,
              Error |-> err, DryRun |-> TRUE]

\* p.Detect(credential)
GhDetectCall(cr) ==
    /\ gh' = [pc |-> "detected", input |-> cr, out |-> GhDetect(cr)]
    /\ UNCHANGED <<engine, caller>>

\* p.Validate(credential)
GhValidateCall(cr) ==
    /\ gh' = [pc |-> "validated", input |-> cr, out |-> GhValidate(cr)]
    /\ UNCHANGED <<engine, caller>>

\* engine.Revoke(ctx, credential) with dryRun set and the GitHub plugin
\* registered alone
GhDryRunRevokeCall(cr) ==
    /\ gh' = [pc |-> "dryrun", input |-> cr, out |-> DryRunRevokeGitHub(cr)]
    /\ UNCHANGED <<engine, caller>>

NextGhFormat ==
    \/ \E cr \in GhCreds : GhDetectCall(cr)
    \/ \E cr \in GhCreds : GhValidateCall(cr)
    \/ \E cr \in GhCreds : GhDryRunRevokeCall(cr)

SpecGhFormat == InitGitHub /\ [][NextGhFormat]_vars

(* ---------------------------- maskCredential --------------------------- *)

MaskLen == 14

\* maskCredential: credentials of at most this length are masked whole
MaskWholeUpTo == 12

\* maskCredential: the leading and trailing characters a longer one keeps
KeepPrefix == 8
KeepSuffix == 4

\* the characters credentials are spelt with; "*" is the masking character
MaskChars == {"a", "*"}

\* the strings of at most MaskLen characters
MaskInputs == UNION {[1..n -> MaskChars] : n \in 0..MaskLen}

\* strings.Repeat(ch, n)
Repeat(ch, n) == [i \in 1..n |-> ch]

\* fault variant: a credential of exactly twelve characters is not masked whole
maskCredentialBelowTwelve(credential) ==
    IF Len(credential) < MaskWholeUpTo
    THEN Repeat("*", Len(credential))
    ELSE LET prefix == SubSeq(credential, 1, KeepPrefix)
             suffix == SubSeq(credential, Len(credential) - KeepSuffix + 1, Len(credential))
             middle == Repeat("*", Len(credential) - MaskWholeUpTo)
         IN  prefix \o middle \o suffix

\* maskCredential
maskCredential(credential) ==
    IF Len(credential) <= MaskWholeUpTo
    THEN Repeat("*", Len(credential))
    ELSE LET prefix == SubSeq(credential, 1, KeepPrefix)
             suffix == SubSeq(credential, Len(credential) - KeepSuffix + 1, Len(credential))
             middle == Repeat("*", Len(credential) - MaskWholeUpTo)
         IN  prefix \o middle \o suffix

\* a caller holding a credential string
InitMask ==
    /\ InitEngine({1})
    /\ \E credential \in MaskInputs :
          caller = [shape |-> "mask", pc |-> "start", credential |-> credential, out |-> <<>>]
    /\ gh = GhIdle

\* masked := maskCredential(credential)
CallMaskCredential ==
    /\ caller.shape = "mask"
    /\ caller.pc = "start"
    /\ caller' = [caller EXCEPT !.pc = "returned", !.out = maskCredential(caller.credential)]
    /\ UNCHANGED <<engine, gh>>

NextMask == CallMaskCredential

SpecMask == InitMask /\ [][NextMask]_vars

(* -------------------------- the /revoke handler ------------------------ *)

\* net/http status codes the handler answers with
StatusOK == 200
StatusPartialContent == 206
StatusBadRequest == 400
StatusMethodNotAllowed == 405

\* the characters of the credentials, as far as masking looks at them: one
\* longer than twelve characters, one of thirteen whose ninth is already an
\* asterisk, and a short one
Spell(credential) ==
    CASE credential = "t1" -> [i \in 1..14 |-> "a"]
      [] credential = "t12" -> [i \in 1..13 |-> IF i = 9 THEN "*" ELSE "a"]
      [] OTHER -> <<"a", "a">>

\* HTTP requests to /revoke: a method and a body that cannot be read, is not
\* JSON, is JSON without a credentials field, or is JSON with a list
ServeBodies ==
    {[kind |-> k, credentials |-> <<>>] : k \in {"unreadable", "invalid", "nofield"}}
        \cup {[kind |-> "json", credentials |-> cs] : cs \in Inputs}
ServeRequests == [method : {"POST", "GET"}, body : ServeBodies]

\* json.Unmarshal(body, &req): whether it succeeds, and req.Credentials (nil
\* when the field is absent)
Unmarshal(body) ==
    IF body.kind = "invalid" THEN [ok |-> FALSE, Credentials |-> <<>>]
    ELSE IF body.kind = "nofield" THEN [ok |-> TRUE, Credentials |-> <<>>]
    ELSE [ok |-> TRUE, Credentials |-> body.credentials]

\* fault variant: an empty credentials list is let through to the engine
RejectStatusAllowsEmpty(req) ==
    IF req.method # "POST" THEN StatusMethodNotAllowed
    ELSE IF req.body.kind = "unreadable" THEN StatusBadRequest
    ELSE IF ~Unmarshal(req.body).ok THEN StatusBadRequest
    ELSE 0

\* the handler's checks in order: the status of the http.Error it answers
\* with, 0 when the request passes all of them
RejectStatus(req) ==
    IF req.method # "POST" THEN StatusMethodNotAllowed
    ELSE IF req.body.kind = "unreadable" THEN StatusBadRequest
    ELSE IF ~Unmarshal(req.body).ok THEN StatusBadRequest
    ELSE IF Len(Unmarshal(req.body).Credentials) = 0 THEN StatusBadRequest
    ELSE 0

\* HumanFormatter.FormatResult, as far as the credential goes: the line shows
\* maskCredential(result.Credential)
FormatResult(result) == maskCredential(Spell(result.Credential))

\* json.NewEncoder(w).Encode(response), as far as the credentials go:
\* RevocationResult has no json tags and no marshaller, so each result is
\* written with its Credential field as it is
Encode(response) ==
    [response EXCEPT !.Results =
        [k \in 1..Len(response.Results) |->
            [response.Results[k] EXCEPT !.Credential = Spell(@)]]]

\* fault variant: the status is 200 whatever the results are
ResponseStatusAlwaysOK(failed) == StatusOK

\* the status written before the response body
ResponseStatus(failed) == IF failed > 0 THEN StatusPartialContent ELSE StatusOK

\* runServe has registered its plugin and set the mode; no request yet
InitServe ==
    /\ registry = <<"test1">>
    /\ dryRun \in BOOLEAN
    /\ InitCalls({1})
    /\ caller = [shape |-> "serve", pc |-> "idle"]
    /\ gh = GhIdle

\* the handler's answer to a request that fails one of its checks
ServeReject(req) ==
    /\ caller.shape = "serve"
    /\ caller.pc \in {"idle", "responded"}
    /\ RejectStatus(req) # 0
    /\ caller' = [shape |-> "serve", pc |-> "responded", req |-> req, batches |-> 0,
                  status |-> RejectStatus(req), log |-> <<>>, body |-> "error"]
    /\ UNCHANGED <<engine, gh>>

\* a request that passes the checks: results := engine.RevokeBatch(ctx,
\* req.Credentials) is called
ServeAccept(req) ==
    /\ caller.shape = "serve"
    /\ caller.pc \in {"idle", "responded"}
    /\ RejectStatus(req) = 0
    /\ EnterRevokeBatch(1, Unmarshal(req.body).Credentials)
    /\ caller' = [shape |-> "serve", pc |-> "engine", req |-> req, batches |-> 1,
                  status |-> 0, log |-> <<>>, body |-> "none"]
    /\ UNCHANGED gh

\* RevokeBatch has returned: the results are logged to stderr, the response
\* is built from GetStats and IsDryRun, the status and the body are written
ServeRespond ==
    /\ caller.shape = "serve"
    /\ caller.pc = "engine"
    /\ cstate[1] = "returned"
    /\ LET rs == results[1]
           stats == GetStats(rs)
           response == [Total |-> stats.total, Successful |-> stats.successful,
                        Failed |-> stats.failed, DryRun |-> dryRun, Results |-> rs]
       IN  caller' = [caller EXCEPT
                        !.pc = "responded",
                        !.log = [k \in 1..Len(rs) |-> FormatResult(rs[k])],
                        !.status = ResponseStatus(response.Failed),
                        !.body = Encode(response)]
    /\ UNCHANGED <<engine, gh>>

NextServe ==
    \/ \E req \in ServeRequests : ServeReject(req)
    \/ \E req \in ServeRequests : ServeAccept(req)
    \/ Spawn(1) /\ UNCHANGED outer
    \/ (\E i \in 1..Len(task[1]) : TaskFind(1, i)) /\ UNCHANGED outer
    \/ (\E i \in 1..Len(task[1]) : TaskReadMode(1, i)) /\ UNCHANGED outer
    \/ (\E i \in 1..Len(task[1]) : TaskValidate(1, i)) /\ UNCHANGED outer
    \/ (\E i \in 1..Len(task[1]) : TaskRevoke(1, i)) /\ UNCHANGED outer
    \/ (\E i \in 1..Len(task[1]) : TaskLock(1, i)) /\ UNCHANGED outer
    \/ (\E i \in 1..Len(task[1]) : TaskStore(1, i)) /\ UNCHANGED outer
    \/ (\E i \in 1..Len(task[1]) : TaskDone(1, i)) /\ UNCHANGED outer
    \/ Wait(1) /\ UNCHANGED outer
    \/ ServeRespond

SpecServe == InitServe /\ [][NextServe]_vars

(* ------------------ SetDryRun while calls are in flight ---------------- *)

\* an engine over one plugin, in either mode
InitToggle ==
    /\ registry = <<"test1">>
    /\ dryRun \in BOOLEAN
    /\ InitCalls({1})
    /\ caller = NoCaller
    /\ gh = GhIdle

\* Engine.SetDryRun called at any moment, also between the steps of the
\* goroutines of a call in flight. The write is not synchronised with their
\* read of the flag; a read sees the value before or after the write, which
\* is the order of this step and the reading step.
SetDryRunInFlight(b) ==
    /\ dryRun' = b
    /\ UNCHANGED <<registry, kind, cstate, input, wg, mu, results, delivered, task>>

NextToggle ==
    \/ (\E b \in BOOLEAN : SetDryRunInFlight(b)) /\ UNCHANGED outer
    \/ (\E credential \in Creds : StartRevoke(1, credential)) /\ UNCHANGED outer
    \/ (\E credentials \in Inputs : StartRevokeBatch(1, credentials)) /\ UNCHANGED outer
    \/ (\E credentials \in Inputs : StartRevokeWithCallback(1, credentials)) /\ UNCHANGED outer
    \/ Spawn(1) /\ UNCHANGED outer
    \/ (\E i \in 1..Len(task[1]) : TaskFind(1, i)) /\ UNCHANGED outer
    \/ (\E i \in 1..Len(task[1]) : TaskReadMode(1, i)) /\ UNCHANGED outer
    \/ (\E i \in 1..Len(task[1]) : TaskValidate(1, i)) /\ UNCHANGED outer
    \/ (\E i \in 1..Len(task[1]) : TaskRevoke(1, i)) /\ UNCHANGED outer
    \/ ReturnRevoke(1) /\ UNCHANGED outer
    \/ (\E i \in 1..Len(task[1]) : TaskLock(1, i)) /\ UNCHANGED outer
    \/ (\E i \in 1..Len(task[1]) : TaskStore(1, i)) /\ UNCHANGED outer
    \/ (\E i \in 1..Len(task[1]) : CallbackBegin(1, i)) /\ UNCHANGED outer
    \/ (\E i \in 1..Len(task[1]) : CallbackEnd(1, i)) /\ UNCHANGED outer
    \/ (\E i \in 1..Len(task[1]) : TaskDone(1, i)) /\ UNCHANGED outer
    \/ Wait(1) /\ UNCHANGED outer

SpecToggle == InitToggle /\ [][NextToggle]_vars

(* ----------------- the frame of the engine's operations ---------------- *)

\* the credential lists of the calls: empty, or one credential (the frame of
\* an operation does not depend on how many goroutines it starts)
FrameInputs == {<<>>} \cup {<<credential>> : credential \in Creds}

RECURSIVE ProbeAllFrom(_, _, _)
\* fault variant: Detect is called on every plugin from position i on
ProbeAllFrom(plugins, credential, i) ==
    IF i > Len(plugins) THEN <<>>
    ELSE <<i>> \o ProbeAllFrom(plugins, credential, i + 1)

RECURSIVE ProbeFrom(_, _, _)
\* the loop of Registry.FindPlugin from position i on: the positions of the
\* plugins whose Detect it calls, in the order of the calls
ProbeFrom(plugins, credential, i) ==
    IF i > Len(plugins) THEN <<>>
    ELSE IF Detect(plugins[i], credential) THEN <<i>>
    ELSE <<i>> \o ProbeFrom(plugins, credential, i + 1)

\* a registry and an engine just constructed; the caller notes its last
\* FindPlugin or ValidateCredential call
InitFrame ==
    /\ InitEngine({1})
    /\ caller = [shape |-> "frame", op |-> "none"]
    /\ gh = GhIdle

\* registry.FindPlugin(credential)
FrameFindPlugin(credential) ==
    /\ caller.shape = "frame"
    /\ caller' = [shape |-> "frame", op |-> "FindPlugin", credential |-> credential,
                  plugins |-> registry, found |-> FindPlugin(registry, credential),
                  name |-> "", probes |-> ProbeFrom(registry, credential, 1)]
    /\ UNCHANGED <<engine, gh>>

\* engine.ValidateCredential(credential)
FrameValidateCredential(credential) ==
    /\ caller.shape = "frame"
    /\ caller' = [shape |-> "frame", op |-> "ValidateCredential", credential |-> credential,
                  plugins |-> registry, found |-> FindPlugin(registry, credential),
                  name |-> ValidateCredential(registry, credential).name,
                  probes |-> ProbeFrom(registry, credential, 1)]
    /\ UNCHANGED <<engine, gh>>

NextFrame ==
    \/ (\E p \in PluginIds : Register(p)) /\ UNCHANGED outer
    \/ (\E b \in BOOLEAN : SetDryRun(b)) /\ UNCHANGED outer
    \/ \E credential \in Creds : FrameFindPlugin(credential)
    \/ \E credential \in Creds : FrameValidateCredential(credential)
    \/ (\E credential \in Creds : StartRevoke(1, credential)) /\ UNCHANGED outer
    \/ (\E credentials \in FrameInputs : StartRevokeBatch(1, credentials)) /\ UNCHANGED outer
    \/ (\E credentials \in FrameInputs : StartRevokeWithCallback(1, credentials))
          /\ UNCHANGED outer
    \/ Spawn(1) /\ UNCHANGED outer
    \/ (\E i \in 1..Len(task[1]) : TaskFind(1, i)) /\ UNCHANGED outer
    \/ (\E i \in 1..Len(task[1]) : TaskReadMode(1, i)) /\ UNCHANGED outer
    \/ (\E i \in 1..Len(task[1]) : TaskValidate(1, i)) /\ UNCHANGED outer
    \/ (\E i \in 1..Len(task[1]) : TaskRevoke(1, i)) /\ UNCHANGED outer
    \/ ReturnRevoke(1) /\ UNCHANGED outer
    \/ (\E i \in 1..Len(task[1]) : TaskLock(1, i)) /\ UNCHANGED outer
    \/ (\E i \in 1..Len(task[1]) : TaskStore(1, i)) /\ UNCHANGED outer
    \/ (\E i \in 1..Len(task[1]) : CallbackBegin(1, i)) /\ UNCHANGED outer
    \/ (\E i \in 1..Len(task[1]) : CallbackEnd(1, i)) /\ UNCHANGED outer
    \/ (\E i \in 1..Len(task[1]) : TaskDone(1, i)) /\ UNCHANGED outer
    \/ Wait(1) /\ UNCHANGED outer

SpecFrame == InitFrame /\ [][NextFrame]_vars

(* ---------------------- the fan-out under fair scheduling -------------- *)

\* an engine over one plugin, in either mode, no call made yet
InitFan ==
    /\ registry = <<"test1">>
    /\ dryRun \in BOOLEAN
    /\ InitCalls({1})
    /\ caller = NoCaller
    /\ gh = GhIdle

\* the caller's thread inside the call: the spawn loop and wg.Wait
CallerStep ==
    \/ Spawn(1) /\ UNCHANGED outer
    \/ Wait(1) /\ UNCHANGED outer

\* a step of the i-th goroutine of the call
GoroutineStep(i) ==
    /\ i \in 1..Len(task[1])
    /\ \/ TaskFind(1, i) /\ UNCHANGED outer
       \/ TaskReadMode(1, i) /\ UNCHANGED outer
       \/ TaskValidate(1, i) /\ UNCHANGED outer
       \/ TaskRevoke(1, i) /\ UNCHANGED outer
       \/ TaskLock(1, i) /\ UNCHANGED outer
       \/ TaskStore(1, i) /\ UNCHANGED outer
       \/ CallbackBegin(1, i) /\ UNCHANGED outer
       \/ CallbackEnd(1, i) /\ UNCHANGED outer
       \/ TaskDone(1, i) /\ UNCHANGED outer

NextFan ==
    \/ (\E credentials \in Inputs : StartRevokeBatch(1, credentials)) /\ UNCHANGED outer
    \/ (\E credentials \in Inputs : StartRevokeWithCallback(1, credentials)) /\ UNCHANGED outer
    \/ CallerStep
    \/ \E i \in 1..Len(task[1]) : GoroutineStep(i)

\* The Go scheduler runs every runnable goroutine: the caller's thread and
\* each goroutine of the call keep making steps while they can (plugin calls
\* and callbacks return, and the mutex is handed to each goroutine waiting
\* for it). Nothing obliges a caller to start a call.
FairFan ==
    /\ WF_vars(CallerStep)
    /\ \A i \in 1..MaxLen : SF_vars(GoroutineStep(i))

SpecFan == InitFan /\ [][NextFan]_vars /\ FairFan

(* --------------------------- the watch command ------------------------- *)

\* the longest file the watcher reads, in words
FileLen == 2

\* fsnotify.Op is a set of flags
Ops == {{"Create"}, {"Write"}, {"Chmod"}, {"Write", "Chmod"}}

\* base names of the files events are about
BaseNames == {"a.env", "b.txt"}

\* values of the --pattern flag: the default, a suffix glob and a glob that
\* filepath.Match rejects with ErrBadPattern
WatchPatterns == {"*", "*.env", "["}

\* os.ReadFile failed
Unreadable == [err |-> TRUE, words |-> <<>>]

\* what os.ReadFile gives for the file of an event: an error, or its words
FileContents ==
    {Unreadable} \cup
    {[err |-> FALSE, words |-> w] : w \in UNION {[1..n -> Creds] : n \in 0..FileLen}}

WatchEvents == [op : Ops, base : BaseNames, content : FileContents]

\* filepath.Match(pattern, name): the match and whether the pattern is bad
Match(pattern, name) ==
    CASE pattern = "*" -> [matched |-> TRUE, err |-> FALSE]
      [] pattern = "*.env" -> [matched |-> name = "a.env", err |-> FALSE]
      [] OTHER -> [matched |-> FALSE, err |-> TRUE]

\* the words of a file that githubTokenPattern finds are those the
\* registered plugin detects
TokenPattern(word) == Detect("test1", word)

\* the de-duplication loop of scanFileForCredentials, from match i on
RECURSIVE Deduplicate(_, _, _)
Deduplicate(matches, i, credentials) ==
    IF i > Len(matches) THEN credentials
    ELSE Deduplicate(matches, i + 1,
            IF \E k \in 1..Len(credentials) : credentials[k] = matches[i]
            THEN credentials
            ELSE Append(credentials, matches[i]))

\* scanFileForCredentials: FindAllString, then the de-duplication
scanFileForCredentials(content) ==
    Deduplicate(SelectSeq(content.words, TokenPattern), 1, <<>>)

\* the two continue statements ahead of the scan: the event is a write or
\* a create, and its base name matches the pattern
PassesFilter(pattern, event) ==
    LET m == Match(pattern, event.base)
    IN  /\ ~("Write" \notin event.op /\ "Create" \notin event.op)
        /\ ~(m.err \/ ~m.matched)

\* what one turn of the loop does with an event, short of calling the engine
Outcome(pattern, event) ==
    IF ~PassesFilter(pattern, event) THEN "skipped"
    ELSE IF event.content.err THEN "scan error"
    ELSE IF Len(scanFileForCredentials(event.content)) > 0 THEN "revoke"
    ELSE "nothing found"

\* runWatch up to the loop: the registry holds the one plugin, the engine
\* has the flag's mode, sigCh is empty
InitWatch ==
    /\ registry = <<"test1">>
    /\ dryRun \in BOOLEAN
    /\ InitCalls({1})
    /\ caller \in [shape : {"watch"}, pc : {"select"}, sig : {FALSE},
                   pattern : WatchPatterns, op : {{}}, base : {""},
                   did : {"none"}]
    /\ gh = GhIdle

\* the operating system delivers an interrupt or a terminate: signal.Notify
\* puts it in sigCh, whose buffer holds one
SignalDelivered ==
    /\ caller.shape = "watch"
    /\ caller.pc # "stopped"
    /\ ~caller.sig
    /\ caller' = [caller EXCEPT !.sig = TRUE]
    /\ UNCHANGED <<engine, gh>>

\* case <-sigCh: return nil
WatchStop ==
    /\ caller.shape = "watch"
    /\ caller.pc = "select"
    /\ caller.sig
    /\ caller' = [caller EXCEPT !.pc = "stopped", !.sig = FALSE]
    /\ UNCHANGED <<engine, gh>>

\* case event := <-watcher.Events, for an event the turn ends on without an
\* engine call: filtered out, scan failed, or nothing found
WatchSkip(event) ==
    /\ caller.shape = "watch"
    /\ caller.pc = "select"
    /\ Outcome(caller.pattern, event) # "revoke"
    /\ caller' = [caller EXCEPT !.op = event.op, !.base = event.base,
                                !.did = Outcome(caller.pattern, event)]
    /\ UNCHANGED <<engine, gh>>

\* case event := <-watcher.Events, for an event whose file holds
\* credentials: engine.RevokeWithCallback(ctx, credentials, callback) is
\* called
WatchRevoke(event) ==
    /\ caller.shape = "watch"
    /\ caller.pc = "select"
    /\ Outcome(caller.pattern, event) = "revoke"
    /\ EnterRevokeWithCallback(1, scanFileForCredentials(event.content))
    /\ caller' = [caller EXCEPT !.pc = "revoking", !.op = event.op,
                                !.base = event.base, !.did = "revoke"]
    /\ UNCHANGED gh

\* case err := <-watcher.Errors: the error is printed
WatchError ==
    /\ caller.shape = "watch"
    /\ caller.pc = "select"
    /\ caller' = [caller EXCEPT !.op = {}, !.base = "", !.did = "watcher error"]
    /\ UNCHANGED <<engine, gh>>

\* the loop goes on to its next turn while the call is still waiting
WatchResumeEarly ==
    /\ caller.shape = "watch"
    /\ caller.pc = "revoking"
    /\ cstate[1] \in {"waiting", "returned"}
    /\ caller' = [caller EXCEPT !.pc = "select"]
    /\ UNCHANGED <<engine, gh>>

\* RevokeWithCallback has returned: the loop goes to its next turn
WatchResume ==
    /\ caller.shape = "watch"
    /\ caller.pc = "revoking"
    /\ cstate[1] = "returned"
    /\ caller' = [caller EXCEPT !.pc = "select"]
    /\ UNCHANGED <<engine, gh>>

NextWatch ==
    \/ SignalDelivered
    \/ WatchStop
    \/ \E event \in WatchEvents : WatchSkip(event)
    \/ \E event \in WatchEvents : WatchRevoke(event)
    \/ WatchError
    \/ CallerStep
    \/ \E i \in 1..Len(task[1]) : GoroutineStep(i)
    \/ WatchResume

\* select picks among its ready cases at random, so a signal waiting in
\* sigCh is not passed over for ever; the engine's steps are scheduled as in
\* FairFan
FairWatch ==
    /\ SF_vars(WatchStop)
    /\ WF_vars(WatchResume)
    /\ WF_vars(CallerStep)
    /\ \A i \in 1..FileLen : SF_vars(GoroutineStep(i))

SpecWatch == InitWatch /\ [][NextWatch]_vars /\ FairWatch

(* ------------------------- vocabulary of the claims -------------------- *)

Returned(c) == cstate[c] = "returned"

Tasks(c) == 1..Len(task[c])

\* the goroutine holds the result of its Engine.Revoke call
HasResult(t) == t.pc \in {"ready", "locked", "incallback", "exit", "done"}

\* positions of the registered plugins that detect the credential
Detectors(credential) == {j \in 1..Len(registry) : Detect(registry[j], credential)}

\* the earliest registered plugin among them
Earliest(credential) ==
    registry[CHOOSE j \in Detectors(credential) : \A m \in Detectors(credential) : j <= m]

\* occurrences of x in a sequence
Count(seq, x) == Cardinality({k \in 1..Len(seq) : seq[k] = x})

\* the credentials of a sequence of results
CredentialsOf(rs) == [k \in 1..Len(rs) |-> rs[k].Credential]

(* -------------------------------- claims ------------------------------- *)

\* C1: RevokeBatch preserves order. The results slice always has the length
\* of the input, a goroutine that has stored its result has stored it in the
\* slot of its own input position, and the slice RevokeBatch returns has
\* results[i].Credential = input[i] for every i, whatever the order in which
\* the goroutines finished.
C1_BatchOrderPreserved ==
    \A c \in CallIds : kind[c] = "batch" =>
        /\ Len(results[c]) = Len(input[c])
        /\ \A i \in Tasks(c) :
              task[c][i].pc \in {"exit", "done"} =>
                  results[c][i].Credential = input[c][i]
        /\ Returned(c) =>
              \A i \in 1..Len(input[c]) : results[c][i].Credential = input[c][i]

\* a returned batch of two different credentials
C1_Witness ==
    \E c \in CallIds :
        /\ kind[c] = "batch" /\ Returned(c)
        /\ Len(input[c]) = 2 /\ input[c][1] # input[c][2]

\* C2: RevokeWithCallback covers its input. The callback never receives more
\* results for a credential than the input holds of it, and when the call
\* has returned it has been invoked once per input position, with the
\* submitted strings verbatim: equal counts for every credential.
C2_CallbackCoverage ==
    \A c \in CallIds : kind[c] = "callback" =>
        /\ \A k \in 1..Len(delivered[c]) :
              Count(CredentialsOf(delivered[c]), delivered[c][k].Credential)
                  <= Count(input[c], delivered[c][k].Credential)
        /\ Returned(c) =>
              /\ Len(delivered[c]) = Len(input[c])
              /\ \A x \in Creds :
                    Count(CredentialsOf(delivered[c]), x) = Count(input[c], x)

\* a returned callback call whose second credential was delivered first
C2_Witness ==
    \E c \in CallIds :
        /\ kind[c] = "callback" /\ Returned(c)
        /\ Len(input[c]) = 2 /\ input[c][1] # input[c][2]
        /\ delivered[c][1].Credential = input[c][2]

\* C3: dry-run is a no-op. With the engine in dry-run mode no goroutine of
\* any call shape has invoked a plugin's Revoke, and every result produced
\* (held by a goroutine, stored in a slot, handed to the callback or
\* returned) has DryRun = TRUE, the no-plugin-found result included.
C3_DryRunNoOp ==
    dryRun =>
        \A c \in CallIds :
            /\ \A i \in Tasks(c) :
                  /\ task[c][i].nRevoke = 0
                  /\ HasResult(task[c][i]) => task[c][i].result.DryRun
            /\ \A k \in 1..Len(delivered[c]) : delivered[c][k].DryRun
            /\ Returned(c) => \A k \in 1..Len(results[c]) : results[c][k].DryRun

\* a dry-run call that has returned an unresolved and a validated credential
C3_Witness ==
    /\ dryRun
    /\ \E c \in CallIds :
          /\ Returned(c)
          /\ \E i \in Tasks(c) : task[c][i].result.Plugin = "none"
          /\ \E i \in Tasks(c) : task[c][i].nValidate = 1

\* C4: RevokeBatch is a barrier. When RevokeBatch has returned, every one of
\* its goroutines has finished (plugin call made, slot written, wg.Done
\* run) and no slot holds the zero value left by make.
C4_BatchBarrier ==
    \A c \in CallIds : (kind[c] = "batch" /\ Returned(c)) =>
        /\ wg[c] = 0
        /\ \A i \in Tasks(c) : task[c][i].pc = "done"
        /\ \A k \in 1..Len(results[c]) : results[c][k] # ZeroResult

\* a returned batch whose goroutines all made a plugin call
C4_Witness ==
    \E c \in CallIds :
        /\ kind[c] = "batch" /\ Returned(c)
        /\ Len(input[c]) >= 2
        /\ \A i \in Tasks(c) : task[c][i].nRevoke + task[c][i].nValidate = 1

\* C5: callbacks happen before the return. When RevokeWithCallback has
\* returned, no goroutine of the call is about to enter the callback or is
\* inside it: every one has finished.
C5_CallbacksBeforeReturn ==
    \A c \in CallIds : (kind[c] = "callback" /\ Returned(c)) =>
        \A i \in Tasks(c) : task[c][i].pc = "done"

\* a returned callback call with two callback invocations behind it
C5_Witness ==
    \E c \in CallIds :
        /\ kind[c] = "callback" /\ Returned(c)
        /\ Len(delivered[c]) = 2

\* C6: resolution precedence. What FindPlugin returned to a goroutine is
\* not-found exactly when no registered plugin detects the credential, and
\* otherwise a plugin that detects it with no detecting plugin registered
\* before it.
C6_ResolutionPrecedence ==
    \A c \in CallIds : \A i \in Tasks(c) :
        task[c][i].pc \notin {"unspawned", "find"} =>
            LET f == task[c][i].found
                cred == task[c][i].credential
            IN  /\ (f = 0) <=> (Detectors(cred) = {})
                /\ f # 0 =>
                      /\ f \in Detectors(cred)
                      /\ \A j \in 1..(f - 1) : ~Detect(registry[j], cred)

\* FindPlugin has answered for a credential that two different registered
\* plugins detect
C6_Witness ==
    \E c \in CallIds : \E i \in Tasks(c) :
        /\ task[c][i].pc = "mode"
        /\ Cardinality({registry[j] : j \in Detectors(task[c][i].credential)}) = 2

\* C7: unresolvable credential. When no registered plugin detects the
\* credential, the result of Engine.Revoke is Success = FALSE, Plugin =
\* "none", Error = ErrNoPluginFound, DryRun = the engine's mode, with the
\* credential verbatim, and neither Validate nor Revoke has been invoked.
C7_Unresolvable ==
    \A c \in CallIds : \A i \in Tasks(c) :
        (HasResult(task[c][i]) /\ Detectors(task[c][i].credential) = {}) =>
            /\ task[c][i].result =
                  [Credential |-> input[c][i], Plugin |-> "none", Success |-> FALSE,
                   Error |-> ErrNoPluginFound, DryRun |-> dryRun]
            /\ task[c][i].nValidate = 0
            /\ task[c][i].nRevoke = 0
            /\ (kind[c] = "single" /\ Returned(c)) => results[c] = <<task[c][i].result>>

\* Engine.Revoke has returned in dry-run mode with an empty registry
C7_Witness ==
    \E c \in CallIds :
        /\ kind[c] = "single" /\ Returned(c)
        /\ registry = <<>>
        /\ dryRun

\* C8: no retry. Outside dry-run mode a goroutine has invoked Revoke at most
\* once and Validate never; once it holds its result for a credential some
\* registered plugin detects, it has invoked Revoke exactly once, and the
\* result has Success = (the returned error is nil), Error = that error,
\* Plugin = the Name of the earliest detecting plugin and DryRun = FALSE.
C8_NoRetry ==
    ~dryRun =>
        \A c \in CallIds : \A i \in Tasks(c) :
            LET t == task[c][i]
            IN  /\ t.nRevoke <= 1
                /\ t.nValidate = 0
                /\ (HasResult(t) /\ Detectors(t.credential) # {}) =>
                      /\ t.nRevoke = 1
                      /\ t.result.Success = (t.err = Nil)
                      /\ t.result.Error = t.err
                      /\ t.result.Plugin = Name(Earliest(t.credential))
                      /\ t.result.DryRun = FALSE
                      /\ t.result.Credential = input[c][i]

\* a goroutine has finished after a single Revoke that the provider refused
C8_Witness ==
    /\ ~dryRun
    /\ \E c \in CallIds : \E i \in Tasks(c) :
          /\ task[c][i].pc = "done"
          /\ task[c][i].err = ErrProvider
          /\ task[c][i].nRevoke = 1

\* C9: dry-run result. In dry-run mode, once Engine.Revoke holds its result
\* for a credential some registered plugin detects, it has called Validate
\* of the earliest detecting plugin exactly once, and the result has
\* Success = (Validate returned nil), Error = what Validate returned and
\* Plugin = that plugin's Name.
C9_DryRunResult ==
    dryRun =>
        \A c \in CallIds : \A i \in Tasks(c) :
            LET t == task[c][i]
            IN  (HasResult(t) /\ Detectors(t.credential) # {}) =>
                    LET p == Earliest(t.credential)
                    IN  /\ t.nValidate = 1
                        /\ t.result.Success = (Validate(p, t.credential) = Nil)
                        /\ t.result.Error = Validate(p, t.credential)
                        /\ t.result.Plugin = Name(p)

\* Engine.Revoke has returned a dry-run result carrying a validation error
C9_Witness ==
    /\ dryRun
    /\ \E c \in CallIds :
          /\ kind[c] = "single" /\ Returned(c)
          /\ results[c][1].Error = ErrInvalidCredential
          /\ results[c][1].Plugin = "test1"

\* every result the engine has produced in call c
Produced(c) ==
    {task[c][i].result : i \in {j \in Tasks(c) : HasResult(task[c][j])}}
        \cup {delivered[c][k] : k \in 1..Len(delivered[c])}
        \cup (IF Returned(c) THEN {results[c][k] : k \in 1..Len(results[c])} ELSE {})

\* C10: results are well formed. Every result produced by the engine, in
\* any call shape and mode, has Success = TRUE exactly when Error is nil;
\* so a routing, format or provider failure is a result with Success =
\* FALSE and a non-nil Error.
C10_ResultWellFormed ==
    \A c \in CallIds : \A r \in Produced(c) : r.Success <=> (r.Error = Nil)

\* a returned batch holding a routing failure and a provider failure
C10_Witness ==
    \E c \in CallIds :
        /\ kind[c] = "batch" /\ Returned(c)
        /\ \E k \in 1..Len(results[c]) : results[c][k].Error = ErrNoPluginFound
        /\ \E k \in 1..Len(results[c]) : results[c][k].Error = ErrProvider

\* C11: per-call isolation. With two RevokeBatch / RevokeWithCallback calls
\* running at once on one engine and registry, each call's results slice has
\* the length of its own input, each slot is still zero or holds the result
\* of that call's own goroutine for that position, the callback of a call
\* receives only results of that call's own goroutines (never more of a
\* credential than that call submitted), and a returned call holds exactly
\* its own credentials, in its own order for RevokeBatch.
C11_PerCallIsolation ==
    \A c \in CallIds :
        /\ kind[c] = "batch" =>
              /\ Len(results[c]) = Len(input[c])
              /\ \A i \in 1..Len(results[c]) :
                    \/ results[c][i] = ZeroResult
                    \/ /\ task[c][i].pc \in {"exit", "done"}
                       /\ results[c][i] = task[c][i].result
                       /\ results[c][i].Credential = input[c][i]
              /\ Returned(c) =>
                    \A i \in 1..Len(input[c]) : results[c][i].Credential = input[c][i]
        /\ kind[c] = "callback" =>
              /\ \A k \in 1..Len(delivered[c]) :
                    /\ \E i \in Tasks(c) :
                          /\ task[c][i].pc \in {"incallback", "exit", "done"}
                          /\ delivered[c][k] = task[c][i].result
                    /\ Count(CredentialsOf(delivered[c]), delivered[c][k].Credential)
                          <= Count(input[c], delivered[c][k].Credential)
              /\ Returned(c) =>
                    \A x \in Creds :
                        Count(CredentialsOf(delivered[c]), x) = Count(input[c], x)

\* two calls with no credential in common are in flight together, each with
\* a result already collected
C11_Witness ==
    \E c, d \in CallIds :
        /\ c # d
        /\ cstate[c] = "waiting" /\ cstate[d] = "waiting"
        /\ Len(input[c]) = 2
        /\ \A i \in 1..Len(input[c]) : \A j \in 1..Len(input[d]) : input[c][i] # input[d][j]
        /\ \E i \in Tasks(c) : task[c][i].pc = "done"
        /\ \E j \in Tasks(d) : task[d][j].pc = "done"

\* C12: the revoke command reports every processed credential. When runRevoke
\* has finished for N >= 2 supplied credentials, the results its callback
\* collected number N and the summary printed "Total processed: N".
C12_AllProcessedReported ==
    (caller.shape = "revoke" /\ caller.pc = "finished" /\ Len(input[1]) >= 2) =>
        /\ Len(caller.results) = Len(input[1])
        /\ caller.summary = Len(input[1])

\* C13: the revoke command fails exactly when a revocation failed. When
\* runRevoke has finished, it has returned "some credentials failed to
\* revoke" if and only if the engine's result for at least one supplied
\* credential has Success = FALSE.
C13_ErrorIffSomeFailed ==
    (caller.shape = "revoke" /\ caller.pc = "finished") =>
        ((caller.ret = "some credentials failed to revoke")
            <=> (\E i \in Tasks(1) : ~task[1][i].result.Success))


\* C14: RevokeWithCallback does not serialize callbacks and fixes no order.
\* A goroutine whose result is ready can enter the callback at once, whatever
\* the other goroutines of the call are doing (some may be inside the
\* callback, some may not have produced their result yet), so callbacks
\* overlap and any goroutine may be the next one delivered.
C14_CallbacksNotSerialized ==
    \A c \in CallIds : \A i \in Tasks(c) :
        (kind[c] = "callback" /\ task[c][i].pc = "ready") => ENABLED CallbackBegin(c, i)

\* two callback invocations of one call in progress at the same time, the
\* second credential's result having been delivered before the first's
C14_Witness ==
    \E c \in CallIds :
        /\ kind[c] = "callback"
        /\ Len(input[c]) = 2
        /\ input[c][1] # input[c][2]
        /\ task[c][1].pc = "incallback"
        /\ task[c][2].pc = "incallback"
        /\ Len(delivered[c]) = 2
        /\ delivered[c][1].Credential = input[c][2]
        /\ delivered[c][2].Credential = input[c][1]


\* C15: ValidateCredential ignores the dry-run flag and calls no plugin's
\* Revoke. Whatever dryRun is, it returns (Name of the first registered plugin
\* that detects the credential, nil) exactly when such a plugin exists and its
\* Validate succeeds; otherwise the name is empty and the error is
\* ErrNoPluginFound when no plugin detects the credential, and that plugin's
\* validation error when its Validate fails.
C15_ValidateCredential ==
    (caller.shape = "registry" /\ caller.vc.pc = "returned") =>
        LET ps == caller.vc.plugins
            cred == caller.vc.credential
            out == caller.vc.out
            D == {j \in 1..Len(ps) : Detect(ps[j], cred)}
        IN  /\ \A k \in 1..Len(out.calls) : out.calls[k].method # "Revoke"
            /\ IF D = {}
               THEN out.name = "" /\ out.err = ErrNoPluginFound
               ELSE LET first == ps[CHOOSE j \in D : \A m \in D : j <= m]
                    IN  IF Validate(first, cred) = Nil
                        THEN out.name = Name(first) /\ out.err = Nil
                        ELSE out.name = "" /\ out.err = Validate(first, cred)
            /\ (out.err = Nil) <=> (out.name # "")

\* in dry-run mode, with two plugins registered that both detect the
\* credential, ValidateCredential has answered with the first one's name
C15_Witness ==
    /\ caller.shape = "registry"
    /\ caller.vc.pc = "returned"
    /\ caller.vc.dry
    /\ caller.vc.plugins = <<"test2", "test1">>
    /\ caller.vc.credential = "t12"
    /\ caller.vc.out.name = "test2"
    /\ caller.vc.out.err = Nil


\* C17: registry order invariant. After any sequence of Register calls,
\* ListPlugins returns exactly the registered plugins in registration order,
\* duplicates included; an answer ListPlugins gave earlier is a prefix of what
\* is registered now (nothing is removed or reordered); the empty registry
\* lists no plugin.
C17_RegistryOrder ==
    caller.shape = "registry" =>
        /\ ListPlugins(registry) = caller.log
        /\ Len(caller.listed) <= Len(ListPlugins(registry))
        /\ caller.listed = SubSeq(ListPlugins(registry), 1, Len(caller.listed))
        /\ (caller.log = <<>> => Len(ListPlugins(registry)) = 0)

\* the same plugin registered twice and listed twice
C17_Witness ==
    /\ caller.shape = "registry"
    /\ caller.log = <<"test1", "test1">>
    /\ caller.listed = <<"test1", "test1">>


\* C16: cancellation surfaces as an ordinary failure and the orchestration
\* does not act on it. Every plugin Revoke call is given the caller's
\* context in the state it is in; a plugin call made under a cancelled context
\* yields a normal result with Success = FALSE and the cancellation error;
\* whatever the context's state, RevokeBatch goes on starting its tasks, and
\* when it has returned every task has finished and the N slots hold the N
\* tasks' results.
C16_CancellationOrdinaryFailure ==
    caller.shape = "ctx" =>
        /\ cstate[1] = "spawning" => ENABLED Spawn(1)
        /\ \A i \in Tasks(1) : caller.seen[i].pc = "called" =>
              LET t == task[1][i]
                  p == registry[t.found]
              IN  /\ caller.seen[i].given = caller.seen[i].actual
                  /\ (caller.seen[i].actual = "cancelled" /\ Validate(p, t.credential) = Nil) =>
                        t.result = [Credential |-> t.credential, Plugin |-> Name(p),
                                    Success |-> FALSE, Error |-> ErrCancelled,
                                    DryRun |-> FALSE]
        /\ Returned(1) =>
              /\ Len(results[1]) = Len(input[1])
              /\ \A i \in Tasks(1) :
                    task[1][i].pc = "done" /\ results[1][i] = task[1][i].result

\* a batch of two cancelled in mid-flight has returned: the first plugin call
\* succeeded under the live context, the second failed with the cancellation
\* error
C16_Witness ==
    /\ caller.shape = "ctx"
    /\ Returned(1)
    /\ Len(input[1]) = 2
    /\ caller.ctx = "cancelled"
    /\ results[1][1].Success
    /\ results[1][2].Error = ErrCancelled
    /\ ~results[1][2].Success


RECURSIVE SumOf(_, _)
\* the sum of f over the finite set S of its arguments
SumOf(f, S) ==
    IF S = {} THEN 0
    ELSE LET x == CHOOSE y \in S : TRUE IN f[x] + SumOf(f, S \ {x})

\* C18: aggregation correctness. For every result collection, GetStats
\* returns total = the number of results, successful = the number with
\* Success = TRUE, failed = the number with Success = FALSE, and by_plugin
\* mapping exactly the Plugin names that occur ("none" included) to their
\* counts; total = successful + failed = the sum of the by_plugin counts, and
\* the empty collection gives zero counts and an empty mapping.
C18_AggregationCorrect ==
    (caller.shape = "stats" /\ caller.pc = "returned") =>
        LET rs == caller.rs
            out == caller.out
            idx == 1..Len(rs)
        IN  /\ out.total = Len(rs)
            /\ out.successful = Cardinality({k \in idx : rs[k].Success})
            /\ out.failed = Cardinality({k \in idx : ~rs[k].Success})
            /\ DOMAIN out.by_plugin = {rs[k].Plugin : k \in idx}
            /\ \A n \in DOMAIN out.by_plugin :
                  out.by_plugin[n] = Cardinality({k \in idx : rs[k].Plugin = n})
            /\ out.total = out.successful + out.failed
            /\ out.total = SumOf(out.by_plugin, DOMAIN out.by_plugin)
            /\ rs = <<>> =>
                  /\ out.total = 0 /\ out.successful = 0 /\ out.failed = 0
                  /\ DOMAIN out.by_plugin = {}

\* the collection [ok/test1, ok/test1, fail/test1, ok/test2] aggregated
C18_Witness ==
    /\ caller.shape = "stats"
    /\ caller.pc = "returned"
    /\ Len(caller.rs) = 4
    /\ caller.out.total = 4
    /\ caller.out.successful = 3
    /\ caller.out.failed = 1
    /\ caller.out.by_plugin = ("test1" :> 3) @@ ("test2" :> 1)


\* C20: the GitHub plugin's Revoke validates before any network action. For
\* a credential that fails Validate, Revoke returns an error wrapping
\* ErrInvalidCredential and has sent no HTTP request; a request is sent only
\* for a credential that passes Validate, and Revoke then returns nil exactly
\* when a response arrived whose status is in 200..299.
C20_ValidateBeforeNetwork ==
    gh.pc # "idle" =>
        /\ gh.sent > 0 => (GhValidate(gh.input) = GhNil /\ gh.sent = 1)
        /\ gh.pc = "returned" =>
              IF GhValidate(gh.input) # GhNil
              THEN gh.ret # GhNil /\ gh.ret.wraps = ErrInvalidCredential /\ gh.sent = 0
              ELSE /\ gh.sent = 1
                   /\ (gh.ret = GhNil) <=>
                         (gh.resp.kind = "response" /\ gh.resp.status \in 200..299)

\* Revoke has returned nil for a token given with surrounding white space,
\* after one request answered with status 204
C20_Witness ==
    /\ gh.pc = "returned"
    /\ gh.input.pad
    /\ gh.input.bodyLen = MinBodyLen
    /\ gh.sent = 1
    /\ gh.resp.status = 204
    /\ gh.ret = GhNil


\* C21: GitHub token detection by prefix. Detect returns true only for
\* credentials that, once surrounding white space is trimmed, start with one of
\* the five documented prefixes ghp_, gho_, ghs_, ghu_, ghr_ followed by at
\* least 36 alphanumeric characters, and false for every other string.
C21_DetectDocumentedPrefixes ==
    gh.pc = "detected" =>
        (gh.out <=> /\ gh.input.head \in {"ghp_", "gho_", "ghs_", "ghu_", "ghr_"}
                    /\ gh.input.alnum
                    /\ gh.input.bodyLen >= 36)

\* C29: for the GitHub plugin Validate succeeds exactly when Detect is true
\* (a detected token is never too short), so a dry-run Engine.Revoke on a
\* registry holding the GitHub plugin alone succeeds exactly for the
\* credentials a plugin is found for, and a routed credential never gets a
\* format-invalid failure.
C29_ValidateIffDetect ==
    /\ gh.pc = "validated" => ((gh.out = GhNil) <=> GhDetect(gh.input))
    /\ gh.pc = "dryrun" =>
          /\ gh.out.Success <=> (gh.out.Plugin # "none")
          /\ (gh.out.Plugin # "none") <=> GhDetect(gh.input)
          /\ gh.out.Plugin # "none" => gh.out.Error = GhNil
          /\ gh.out.Error.wraps # ErrInvalidCredential

\* a dry-run revocation routed to the GitHub plugin for a token of the least
\* length, given with surrounding white space
C29_Witness ==
    /\ gh.pc = "dryrun"
    /\ gh.input.pad
    /\ gh.input.bodyLen = MinBodyLen
    /\ gh.out.Plugin = GhName
    /\ gh.out.Success


\* the positions of a credential that lie between its first 8 and its last 4
\* characters
MiddleOf(credential) == (KeepPrefix + 1)..(Len(credential) - KeepSuffix)

\* C22 as stated: maskCredential masks every credential. The output has the
\* input's length and, for a non-empty input, at least one asterisk; a
\* credential of more than 12 characters yields an output that differs from
\* it, keeps its first 8 and last 4 characters and has '*' everywhere in
\* between; a credential of 12 characters or fewer becomes all '*'.
C22_MaskAlwaysDiffers ==
    (caller.shape = "mask" /\ caller.pc = "returned") =>
        LET credential == caller.credential
            out == caller.out
            n == Len(credential)
        IN  /\ Len(out) = n
            /\ n > 0 => \E k \in 1..n : out[k] = "*"
            /\ n > 12 =>
                  /\ out # credential
                  /\ \A k \in 1..8 : out[k] = credential[k]
                  /\ \A k \in (n - 3)..n : out[k] = credential[k]
                  /\ \A k \in 9..(n - 4) : out[k] = "*"
            /\ n <= 12 => \A k \in 1..n : out[k] = "*"

\* C22, amended: as above, except that the output of a credential of more
\* than 12 characters differs from the credential exactly when one of the
\* characters between its first 8 and last 4 is not already '*'.
C22_MaskCredential ==
    (caller.shape = "mask" /\ caller.pc = "returned") =>
        LET credential == caller.credential
            out == caller.out
            n == Len(credential)
        IN  /\ Len(out) = n
            /\ n > 0 => \E k \in 1..n : out[k] = "*"
            /\ n > 12 =>
                  /\ (out # credential) <=> (\E k \in MiddleOf(credential) : credential[k] # "*")
                  /\ \A k \in 1..8 : out[k] = credential[k]
                  /\ \A k \in (n - 3)..n : out[k] = credential[k]
                  /\ \A k \in 9..(n - 4) : out[k] = "*"
            /\ n <= 12 => \A k \in 1..n : out[k] = "*"

\* a credential of 14 letters masked to 8 letters, two asterisks, 4 letters
C22_Witness ==
    /\ caller.shape = "mask"
    /\ caller.pc = "returned"
    /\ caller.credential = [i \in 1..14 |-> "a"]
    /\ caller.out = [i \in 1..14 |-> IF i \in {9, 10} THEN "*" ELSE "a"]


\* shown displays text with nothing but its first 8 and last 4 characters
\* legible, and is not the text itself
OnlyEndsShown(shown, text) ==
    /\ Len(shown) = Len(text)
    /\ shown # text
    /\ IF Len(text) <= 12
       THEN \A k \in 1..Len(text) : shown[k] = "*"
       ELSE /\ \A k \in 1..8 : shown[k] = text[k]
            /\ \A k \in (Len(text) - 3)..Len(text) : shown[k] = text[k]
            /\ \A k \in 9..(Len(text) - 4) : shown[k] = "*"

\* C23: credentials are masked in output. Wherever a processed credential is
\* emitted - the result lines written to stderr and the /revoke response
\* body - the full credential string does not appear; only its first 8 and
\* last 4 characters are shown.
C23_CredentialsMasked ==
    (caller.shape = "serve" /\ caller.pc = "responded" /\ caller.batches = 1) =>
        \A k \in 1..Len(input[1]) :
            /\ OnlyEndsShown(caller.log[k], Spell(results[1][k].Credential))
            /\ OnlyEndsShown(caller.body.Results[k].Credential, Spell(input[1][k]))

\* C27: /revoke rejects bad requests without touching the engine. A step in
\* which the handler takes a request whose method is not POST answers 405; one
\* whose body is not valid JSON, or has an empty or missing credentials list,
\* answers 400; in each case the step is the whole handling of the request,
\* RevokeBatch is not called and nothing of the engine or of its goroutines
\* (hence no Detect, Validate or Revoke) changes.
C27_BadRequestsRejected ==
    [][(caller.shape = "serve" /\ caller.pc \in {"idle", "responded"} /\ caller' # caller) =>
          LET req == caller'.req
              rejected(status) == /\ caller'.pc = "responded"
                                  /\ caller'.status = status
                                  /\ caller'.batches = 0
                                  /\ UNCHANGED engine
          IN  IF req.method # "POST" THEN rejected(405)
              ELSE IF req.body.kind = "invalid" THEN rejected(400)
              ELSE IF req.body.kind = "nofield" THEN rejected(400)
              ELSE IF req.body.kind = "json" /\ req.body.credentials = <<>> THEN rejected(400)
              ELSE TRUE]_vars

\* a POST with an empty credentials list answered 400 while the engine still
\* holds the finished batch of the request before it
C27_Witness ==
    /\ caller.shape = "serve"
    /\ caller.pc = "responded"
    /\ caller.req.method = "POST"
    /\ caller.req.body.kind = "json"
    /\ caller.req.body.credentials = <<>>
    /\ caller.status = 400
    /\ cstate[1] = "returned"
    /\ Len(results[1]) = 2

C24_ModeConsistentResult ==
    \A c \in CallIds : \A i \in Tasks(c) :
        LET t == task[c][i]
        IN  (HasResult(t) /\ t.found # 0) =>
               /\ t.result.DryRun => (t.nRevoke = 0 /\ t.nValidate = 1)
               /\ ~t.result.DryRun => (t.nRevoke = 1 /\ t.nValidate = 0)

\* a returned batch of two resolved credentials, one handled in dry-run mode
\* and one revoked: the flag was changed between the two goroutines' reads
C24_Witness ==
    /\ kind[1] = "batch"
    /\ Returned(1)
    /\ Len(results[1]) = 2
    /\ task[1][1].found # 0
    /\ task[1][2].found # 0
    /\ results[1][1].DryRun
    /\ ~results[1][2].DryRun


\* the variables of the calls in flight
calls == <<kind, cstate, input, wg, mu, results, delivered, task>>

\* C25: frame of the engine's operations. A step that changes the registry
\* appends one plugin to it and is no step of Revoke, RevokeBatch,
\* RevokeWithCallback, ValidateCredential or FindPlugin (it is a Register); a
\* step that changes the dry-run flag is no step of theirs either (it is a
\* SetDryRun); their steps leave both unchanged. FindPlugin calls Detect on the
\* plugins in registration order, up to and including the first that detects
\* and on none after it.
C25_Frame ==
    [][/\ registry' # registry =>
             /\ \E p \in PluginIds : registry' = Append(registry, p)
             /\ UNCHANGED <<dryRun, calls, caller>>
       /\ dryRun' # dryRun => UNCHANGED <<registry, calls, caller>>
       /\ (calls' # calls \/ caller' # caller) => UNCHANGED <<registry, dryRun>>
       /\ (caller'.shape = "frame" /\ caller'.op # "none") =>
             LET ps == caller'.plugins
                 D == {j \in 1..Len(ps) : Detect(ps[j], caller'.credential)}
                 last == IF D = {} THEN Len(ps) ELSE CHOOSE j \in D : \A m \in D : j <= m
             IN  caller'.probes = [k \in 1..last |-> k]]_vars

\* FindPlugin has stopped at the first of two plugins that both detect the
\* credential, on an engine that has completed a call
C25_Witness ==
    /\ caller.shape = "frame"
    /\ caller.op = "FindPlugin"
    /\ caller.plugins = <<"test1", "test2">>
    /\ caller.credential = "t12"
    /\ caller.probes = <<1>>
    /\ cstate[1] = "returned"


\* C26: termination of the fan-out. RevokeBatch and RevokeWithCallback have
\* started exactly one goroutine per input element once their loop is over,
\* and - every plugin call and callback returning, every runnable goroutine
\* being run - a call in flight eventually returns. For an empty input
\* nothing stands between the call and its return (no goroutine, wg = 0), and
\* it returns an empty result sequence, no callback or plugin call made.
C26_FanOutTerminates ==
    /\ [](cstate[1] \in {"waiting", "returned"} =>
            /\ Len(task[1]) = Len(input[1])
            /\ \A i \in Tasks(1) : task[1][i].pc # "unspawned"
            /\ \A i \in Tasks(1) : task[1][i].credential = input[1][i]
            /\ input[1] = <<>> =>
                  /\ wg[1] = 0
                  /\ task[1] = <<>>
                  /\ delivered[1] = <<>>
                  /\ Returned(1) => results[1] = <<>>)
    /\ (InFlight(1) ~> Returned(1))

\* a call over two credentials that has returned, both goroutines done and
\* the wait group back at zero
C26_Witness ==
    /\ Returned(1)
    /\ Len(input[1]) = 2
    /\ wg[1] = 0
    /\ task[1][1].pc = "done"
    /\ task[1][2].pc = "done"
    /\ task[1][1].nValidate + task[1][1].nRevoke = 1

\* the turn of the loop that is under way has scanned the file of its event
Scanned == caller.did \in {"scan error", "nothing found", "revoke"}

\* the loop has taken something from a channel: an event, a watcher error
\* or the signal
TakesNext ==
    \/ caller'.op # caller.op
    \/ caller'.base # caller.base
    \/ caller'.did # caller.did
    \/ caller.pc # "stopped" /\ caller'.pc = "stopped"

\* C30: the watch loop handles one event at a time: while RevokeWithCallback
\* for an event is in flight the loop is inside that call, it takes the next
\* event, watcher error or stop signal only at its select with no call in
\* flight, and it leaves a call only when the call has returned with every
\* callback done; a file is scanned only for an event with Write or Create
\* whose base name matches the pattern, and the credentials revoked are the
\* ones the scan found; and a delivered signal leads to the loop's return.
C30_WatchLoop ==
    /\ [](InFlight(1) => caller.pc = "revoking")
    /\ [][TakesNext => caller.pc = "select" /\ ~InFlight(1)]_vars
    /\ [][caller.pc = "revoking" /\ caller'.pc # "revoking" =>
            /\ caller'.pc = "select"
            /\ Returned(1)
            /\ wg[1] = 0
            /\ Len(delivered[1]) = Len(input[1])
            /\ \A i \in Tasks(1) : task[1][i].pc = "done"]_vars
    /\ [](Scanned =>
            /\ "Write" \in caller.op \/ "Create" \in caller.op
            /\ Match(caller.pattern, caller.base).matched)
    /\ [](caller.pc = "revoking" =>
            /\ caller.did = "revoke"
            /\ input[1] # <<>>
            /\ \A i, j \in 1..Len(input[1]) : input[1][i] = input[1][j] => i = j
            /\ \A i \in 1..Len(input[1]) : TokenPattern(input[1][i]))
    /\ (caller.sig ~> caller.pc = "stopped")

\* the loop took an event whose file held two credentials, the call ran to
\* its end with both callbacks done, and the loop then stopped on a signal
C30_Witness ==
    /\ caller.shape = "watch"
    /\ caller.pc = "stopped"
    /\ caller.did = "revoke"
    /\ Returned(1)
    /\ Len(input[1]) = 2
    /\ Len(delivered[1]) = 2

====
